---- MODULE Spec2Model ----
(***************************************************************************)
(* Model of the hotel search backend (backend/main.py,                     *)
(* backend/agodaScrapper.py, backend/bookingScrapperWithFilters.py).       *)
(*                                                                         *)
(* Python strings are sequences of one-character strings, so that strip,   *)
(* startswith, split, concatenation and the parsers are computed as the    *)
(* code computes them.  An optional string (str | None) is the record      *)
(* [none, s].                                                              *)
(***************************************************************************)
EXTENDS Integers, Sequences, FiniteSets, TLC

(* ------------------------------ strings -------------------------------- *)

DigitChars == <<"0","1","2","3","4","5","6","7","8","9">>

Digits == {DigitChars[i] : i \in 1..10}

DigitVal(c) == (CHOOSE i \in 1..10 : DigitChars[i] = c) - 1

IsDigits(s) == \A i \in 1..Len(s) : s[i] \in Digits

Whitespace == {" ", "\t", "\n"}

NoneStr == [none |-> TRUE, s |-> <<>>]

Str(s) == [none |-> FALSE, s |-> s]

\* Python truthiness of a str | None value
Truthy(v) == ~v.none /\ v.s # <<>>

RECURSIVE LStrip(_)
LStrip(s) == IF s # <<>> /\ Head(s) \in Whitespace THEN LStrip(Tail(s)) ELSE s

RECURSIVE RStrip(_)
RStrip(s) ==
  IF s # <<>> /\ s[Len(s)] \in Whitespace THEN RStrip(SubSeq(s, 1, Len(s) - 1)) ELSE s

\* str.strip()
Strip(s) == RStrip(LStrip(s))

\* str.startswith(p)
StartsWith(s, p) == Len(s) >= Len(p) /\ SubSeq(s, 1, Len(p)) = p

\* str.endswith(p)
EndsWith(s, p) == Len(s) >= Len(p) /\ SubSeq(s, Len(s) - Len(p) + 1, Len(s)) = p

\* p in s
Contains(s, p) == \E i \in 1..(Len(s) - Len(p) + 1) : SubSeq(s, i, i + Len(p) - 1) = p

\* str.find(c) for a one-character c, 1-based; 0 when absent
FindChar(s, c) ==
  IF \E i \in 1..Len(s) : s[i] = c
  THEN CHOOSE i \in 1..Len(s) : s[i] = c /\ \A j \in 1..(i - 1) : s[j] # c
  ELSE 0

\* str.split(c) for a one-character separator c
RECURSIVE SplitOn(_, _)
SplitOn(s, c) ==
  LET i == FindChar(s, c)
  IN IF i = 0 THEN <<s>>
     ELSE <<SubSeq(s, 1, i - 1)>> \o SplitOn(SubSeq(s, i + 1, Len(s)), c)

\* int(s) of a digit string
RECURSIVE ParseNat(_)
ParseNat(s) ==
  IF s = <<>> THEN 0 ELSE 10 * ParseNat(SubSeq(s, 1, Len(s) - 1)) + DigitVal(s[Len(s)])

(* ------------------------- agodaScrapper: dates ------------------------ *)

IsLeap(y) == (y % 4 = 0 /\ y % 100 # 0) \/ y % 400 = 0

DaysInMonth(y, m) ==
  IF m = 2 THEN (IF IsLeap(y) THEN 29 ELSE 28)
  ELSE IF m \in {4, 6, 9, 11} THEN 30 ELSE 31

\* directive %Y: exactly four digits
MatchesY(p) == Len(p) = 4 /\ IsDigits(p)

\* directive %m: 1[0-2] | 0[1-9] | [1-9]
MatchesM(p) ==
  /\ Len(p) \in {1, 2}
  /\ IsDigits(p)
  /\ ParseNat(p) \in 1..12

\* directive %d: 3[01] | [12]\d | 0[1-9] | [1-9] | " "[1-9]
MatchesD(p) ==
  \/ Len(p) \in {1, 2} /\ IsDigits(p) /\ ParseNat(p) \in 1..31
  \/ Len(p) = 2 /\ p[1] = " " /\ p[2] \in Digits /\ DigitVal(p[2]) \in 1..9

DayOf(p) == IF p[1] = " " THEN DigitVal(p[2]) ELSE ParseNat(p)

\* datetime.strptime(s, '%Y-%m-%d'): the parsed date, or ok = FALSE for ValueError
Strptime(s) ==
  LET parts == SplitOn(s, "-")
      bad == [ok |-> FALSE, y |-> 0, m |-> 0, d |-> 0]
  IN IF Len(parts) # 3 THEN bad
     ELSE IF ~(MatchesY(parts[1]) /\ MatchesM(parts[2]) /\ MatchesD(parts[3])) THEN bad
     ELSE LET y == ParseNat(parts[1])
              m == ParseNat(parts[2])
              d == DayOf(parts[3])
          IN IF y >= 1 /\ d <= DaysInMonth(y, m)
             THEN [ok |-> TRUE, y |-> y, m |-> m, d |-> d]
             ELSE bad

validate_date_format(date_string) == Strptime(date_string).ok

\* datetime comparison a <= b
DateLeq(a, b) ==
  \/ a.y < b.y
  \/ a.y = b.y /\ a.m < b.m
  \/ a.y = b.y /\ a.m = b.m /\ a.d <= b.d

\* the input validation of agoda_scraper: "ok", or the ValueError it raises
AgodaValidation(location, check_in_date, check_out_date, adults) ==
  IF Strip(location) = <<>> THEN "ValueError"
  ELSE IF ~validate_date_format(check_in_date) THEN "ValueError"
  ELSE IF ~validate_date_format(check_out_date) THEN "ValueError"
  ELSE IF adults < 1 \/ adults > 10 THEN "ValueError"
  ELSE IF DateLeq(Strptime(check_out_date), Strptime(check_in_date)) THEN "ValueError"
  ELSE "ok"

(* ------------------ agodaScrapper: extract_hotel_info ------------------ *)

\* number of candidate selectors of each field
NumNameSelectors == 7

NumPriceSelectors == 11

NumLinkSelectors == 3

NumImageSelectors == 4

NA == <<"N","/","A">>

AgodaBase == <<"h","t","t","p","s",":","/","/","w","w","w",".","a","g","o","d","a",".","c","o","m">>

\* outcome of item.query_selector(selector): no element, or an element whose
\* text / attribute read gives val (None or a string)
NoElem == [found |-> FALSE, val |-> NoneStr]

Elem(v) == [found |-> TRUE, val |-> v]

\* float(s) for s made of digits and '.', in hundredths; ok = FALSE for ValueError
FloatOf(s) ==
  LET parts == SplitOn(s, ".")
      ip == parts[1]
      fp == IF Len(parts) = 2 THEN parts[2] ELSE <<>>
      pad == SubSeq(fp \o <<"0","0">>, 1, 2)
  IN IF Len(parts) <= 2 /\ IsDigits(ip) /\ IsDigits(fp) /\ Len(ip) + Len(fp) >= 1
     THEN [ok |-> TRUE, cents |-> 100 * ParseNat(ip) + ParseNat(pad)]
     ELSE [ok |-> FALSE, cents |-> 0]

\* ''.join(c for c in price_text if c.isdigit() or c == '.')
CleanPrice(s) == SelectSeq(s, LAMBDA c : c \in Digits \/ c = ".")

\* the name loop: value of hotel_name after it and the selectors tried, in order
RECURSIVE NameLoop(_, _, _, _)
NameLoop(cands, i, cur, tried) ==
  IF i > Len(cands) THEN [val |-> cur, tried |-> tried]
  ELSE IF ~cands[i].found THEN NameLoop(cands, i + 1, cur, Append(tried, i))
  ELSE IF Truthy(cands[i].val) /\ Strip(cands[i].val.s) # <<>>
       THEN [val |-> Str(Strip(cands[i].val.s)), tried |-> Append(tried, i)]
       ELSE NameLoop(cands, i + 1, cands[i].val, Append(tried, i))

ExtractName(cands) == NameLoop(cands, 1, Str(NA), <<>>)

\* the price loop: value of price_text after it and the selectors tried
RECURSIVE PriceLoop(_, _, _, _)
PriceLoop(cands, i, cur, tried) ==
  IF i > Len(cands) THEN [val |-> cur, tried |-> tried]
  ELSE IF ~cands[i].found THEN PriceLoop(cands, i + 1, cur, Append(tried, i))
  ELSE IF Truthy(cands[i].val) /\ cands[i].val.s # NA /\ Strip(cands[i].val.s) # <<>>
       THEN [val |-> cands[i].val, tried |-> Append(tried, i)]
       ELSE PriceLoop(cands, i + 1, cands[i].val, Append(tried, i))

ExtractPriceText(cands) == PriceLoop(cands, 1, Str(NA), <<>>)

\* the href / src loops: value after the loop and the selectors tried
RECURSIVE AttrLoop(_, _, _, _)
AttrLoop(cands, i, cur, tried) ==
  IF i > Len(cands) THEN [val |-> cur, tried |-> tried]
  ELSE IF ~cands[i].found THEN AttrLoop(cands, i + 1, cur, Append(tried, i))
  ELSE IF Truthy(cands[i].val)
       THEN [val |-> cands[i].val, tried |-> Append(tried, i)]
       ELSE AttrLoop(cands, i + 1, cands[i].val, Append(tried, i))

\* an attribute loop without the break: every selector is tried, the value is the same
ExtractAttrNoBreak(cands) ==
  [val |-> AttrLoop(cands, 1, Str(NA), <<>>).val, tried |-> [i \in 1..Len(cands) |-> i]]

ExtractAttr(cands) == AttrLoop(cands, 1, Str(NA), <<>>)

\* hotel_price from price_text: na = TRUE is the value "N/A"
PriceOf(price_text) ==
  LET cleaned == CleanPrice(price_text.s)
  IN IF price_text.s # NA /\ Truthy(price_text) /\ cleaned # <<>> /\ FloatOf(cleaned).ok
     THEN [na |-> FALSE, cents |-> FloatOf(cleaned).cents]
     ELSE [na |-> TRUE, cents |-> 0]

\* the rating scan over the item's span texts, then rating_text.split(" ")[0]
RatingOf(spans) ==
  LET hits == SelectSeq(spans, LAMBDA t : Truthy(t) /\ Contains(t.s,
                <<"s","t","a","r","s"," ","o","u","t"," ","o","f"," ","5">>))
  IN IF hits = <<>> THEN NA ELSE SplitOn(hits[1].s, " ")[1]

NoData == [hotel_name |-> <<>>, hotel_price |-> 0, hotel_rating |-> NA,
           booking_url |-> NoneStr, image_url |-> NoneStr]

\* the hotel_data dictionary; ok = FALSE when a str method is called on None
\* (AttributeError, caught by the function's except clause)
BuildHotelData(hotel_name, hotel_rating, hotel_price, booking_url, main_image_url) ==
  IF booking_url.none \/ main_image_url.none THEN [ok |-> FALSE, data |-> NoData]
  ELSE [ok |-> TRUE,
        data |-> [hotel_name |-> hotel_name,
                  hotel_price |-> hotel_price,
                  hotel_rating |-> hotel_rating,
                  booking_url |->
                    IF booking_url.s # NA /\ ~StartsWith(booking_url.s, <<"h","t","t","p">>)
                    THEN Str(AgodaBase \o booking_url.s) ELSE booking_url,
                  image_url |->
                    IF main_image_url.s # NA /\ StartsWith(main_image_url.s, <<"/","/">>)
                    THEN Str(<<"h","t","t","p","s",":">> \o main_image_url.s)
                    ELSE main_image_url]]

\* if hotel_name == "N/A" or not hotel_name: return None
NameMissing(hotel_name) == hotel_name.s = NA \/ ~Truthy(hotel_name)

\* extract_hotel_info(item): ok = FALSE when it returns None
ExtractHotelInfo(item) ==
  LET hotel_name == ExtractName(item.name).val
      hotel_price == PriceOf(ExtractPriceText(item.price).val)
  IN IF NameMissing(hotel_name) THEN [ok |-> FALSE, data |-> NoData]
     ELSE IF hotel_price.na THEN [ok |-> FALSE, data |-> NoData]
     ELSE BuildHotelData(hotel_name.s, RatingOf(item.spans), hotel_price.cents,
                         ExtractAttr(item.link).val, ExtractAttr(item.image).val)

(* --------------------- urllib.parse: urlparse, urljoin ------------------ *)

Letters == {"a","b","c","d","e","f","g","h","i","j","k","l","m",
            "n","o","p","q","r","s","t","u","v","w","x","y","z"}

SchemeChars == Letters \cup Digits \cup {"+", "-", "."}

\* smallest index of a character of cs in s; Len(s) + 1 when there is none
FirstOf(s, cs) ==
  IF \E i \in 1..Len(s) : s[i] \in cs
  THEN CHOOSE i \in 1..Len(s) : s[i] \in cs /\ \A j \in 1..(i - 1) : s[j] \notin cs
  ELSE Len(s) + 1

\* urlparse(url): scheme, netloc, path and query of a url without fragment
UrlParse(url) ==
  LET Parts(scheme, netloc, r3, q) ==
        [scheme |-> scheme,
         netloc |-> netloc,
         path |-> IF q = 0 THEN r3 ELSE SubSeq(r3, 1, q - 1),
         query |-> IF q = 0 THEN <<>> ELSE SubSeq(r3, q + 1, Len(r3))]
      Rest(scheme, netloc, r3) == Parts(scheme, netloc, r3, FindChar(r3, "?"))
      Net(scheme, r2, e) == Rest(scheme, SubSeq(r2, 1, e - 1), SubSeq(r2, e, Len(r2)))
      AfterScheme(scheme, r1) ==
        IF StartsWith(r1, <<"/","/">>)
        THEN Net(scheme, SubSeq(r1, 3, Len(r1)),
                 FirstOf(SubSeq(r1, 3, Len(r1)), {"/", "?"}))
        ELSE Rest(scheme, <<>>, r1)
      Split(c) ==
        IF c > 1 /\ url[1] \in Letters /\ \A j \in 1..(c - 1) : url[j] \in SchemeChars
        THEN AfterScheme(SubSeq(url, 1, c - 1), SubSeq(url, c + 1, Len(url)))
        ELSE AfterScheme(<<>>, url)
  IN Split(FindChar(url, ":"))

\* urljoin(base, url) for a base without path, such as the site roots used here
UrlJoin(base, url) ==
  LET Build(b, u, root, qs) ==
        IF url = <<>> THEN base
        ELSE IF u.scheme # <<>> /\ u.scheme # b.scheme THEN url
        ELSE IF u.netloc # <<>>
             THEN b.scheme \o <<":","/","/">> \o u.netloc \o u.path \o qs
        ELSE IF u.path = <<>> THEN root \o b.path \o qs
        ELSE IF StartsWith(u.path, <<"/">>) THEN root \o u.path \o qs
        ELSE root \o <<"/">> \o u.path \o qs
      Join(b, u) ==
        Build(b, u, b.scheme \o <<":","/","/">> \o b.netloc,
              IF u.query = <<>> THEN <<>> ELSE <<"?">> \o u.query)
  IN Join(UrlParse(base), UrlParse(url))

(* -------------- bookingScrapperWithFilters: pure helpers ---------------- *)

BookingBase == <<"h","t","t","p","s",":","/","/","w","w","w",".","b","o","o","k","i","n","g",".","c","o","m">>

\* an optional number: None, or the value v
NoneNum == [none |-> TRUE, v |-> 0]

Num(v) == [none |-> FALSE, v |-> v]

\* first element of a sequence satisfying P, as a one-element or empty sequence
FirstWhere(seq, P(_)) ==
  LET hits == SelectSeq(seq, P) IN IF hits = <<>> THEN <<>> ELSE <<hits[1]>>

\* parse_qs(query): the (name, value) pairs with a non-blank value, in order
QueryPairs(query) ==
  LET Pair(item, e) ==
        IF e = 0 THEN [k |-> item, v |-> <<>>]
        ELSE [k |-> SubSeq(item, 1, e - 1), v |-> SubSeq(item, e + 1, Len(item))]
      Pairs(items) == [i \in 1..Len(items) |-> Pair(items[i], FindChar(items[i], "="))]
  IN SelectSeq(Pairs(IF query = <<>> THEN <<>> ELSE SplitOn(query, "&")),
               LAMBDA kv : kv.v # <<>>)

\* extract_hotel_id(url): ok = FALSE when it raises (hostname is None),
\* otherwise id is the returned value (None or a string)
extract_hotel_id(url) ==
  LET Pick(netloc, inPath, qp, present, inHost) ==
        IF url = <<>> THEN [ok |-> TRUE, id |-> NoneStr]
        ELSE IF inPath # <<>> THEN [ok |-> TRUE, id |-> Str(inPath[1])]
        ELSE IF present # <<>>
             THEN [ok |-> TRUE,
                   id |-> Str(FirstWhere(qp, LAMBDA kv : kv.k = present[1])[1].v)]
        ELSE IF netloc = <<>> THEN [ok |-> FALSE, id |-> NoneStr]
        ELSE IF inHost # <<>> THEN [ok |-> TRUE, id |-> Str(inHost[1])]
        ELSE [ok |-> TRUE, id |-> NoneStr]
      WithQuery(netloc, inPath, qp) ==
        Pick(netloc, inPath, qp,
             SelectSeq(<< <<"h","o","t","e","l","_","i","d">>, <<"a","i","d">>, <<"i","d">> >>,
                       LAMBDA k : \E i \in 1..Len(qp) : qp[i].k = k),
             FirstWhere(SplitOn(netloc, "."),
                        LAMBDA part : StartsWith(part, <<"h","o","t","e","l">>)
                                      /\ Len(part) > 5))
      WithParsed(parsed) ==
        WithQuery(parsed.netloc,
                  FirstWhere(SplitOn(parsed.path, "/"),
                             LAMBDA part : \/ StartsWith(part, <<"h","o","t","e","l">>)
                                           \/ StartsWith(part, <<"a","c","-">>)
                                           \/ (part # <<>> /\ IsDigits(part))),
                  QueryPairs(parsed.query))
  IN WithParsed(UrlParse(url))

\* the maximal run of characters of cs that starts at index i of s
RECURSIVE RunFrom(_, _, _)
RunFrom(s, i, cs) ==
  IF i <= Len(s) /\ s[i] \in cs THEN <<s[i]>> \o RunFrom(s, i + 1, cs) ELSE <<>>

\* re.search(r'Scored\s+([\d.]+)', s): group 1 as a one-element sequence, or <<>>
ScoreMatch(s) ==
  LET grp(i, ws) == RunFrom(s, i + 6 + Len(ws), Digits \cup {"."})
      ok(i) == /\ i + 5 <= Len(s)
               /\ SubSeq(s, i, i + 5) = <<"S","c","o","r","e","d">>
               /\ RunFrom(s, i + 6, Whitespace) # <<>>
               /\ grp(i, RunFrom(s, i + 6, Whitespace)) # <<>>
      First(starts) ==
        IF starts = {} THEN <<>>
        ELSE LET i == CHOOSE k \in starts : \A j \in starts : k <= j
             IN <<grp(i, RunFrom(s, i + 6, Whitespace))>>
  IN First({i \in 1..Len(s) : ok(i)})

\* re.search(r'(\d[\d,]*)\s+reviews', s): group 1 as a one-element sequence, or <<>>
ReviewsMatch(s) ==
  LET grp(i) == RunFrom(s, i, Digits \cup {","})
      tail(a, ws) ==
        /\ ws # <<>>
        /\ a + Len(ws) + 6 <= Len(s)
        /\ SubSeq(s, a + Len(ws), a + Len(ws) + 6) = <<"r","e","v","i","e","w","s">>
      after(a) == tail(a, RunFrom(s, a, Whitespace))
      ok(i) == s[i] \in Digits /\ after(i + Len(grp(i)))
      First(starts) ==
        IF starts = {} THEN <<>>
        ELSE <<grp(CHOOSE i \in starts : \A j \in starts : i <= j)>>
  IN First({i \in 1..Len(s) : ok(i)})

\* clean_rating(raw_rating): ok = FALSE when float() raises ValueError
clean_rating(raw_rating) ==
  LET Result(sm, f, reviews) ==
        IF sm = <<>> THEN [ok |-> TRUE, score |-> NoneNum, reviews |-> reviews]
        ELSE IF f.ok THEN [ok |-> TRUE, score |-> Num(f.cents), reviews |-> reviews]
        ELSE [ok |-> FALSE, score |-> NoneNum, reviews |-> NoneNum]
      Reviews(rm) ==
        IF rm = <<>> THEN NoneNum ELSE Num(ParseNat(SelectSeq(rm[1], LAMBDA c : c # ",")))
      Score(sm) ==
        Result(sm, FloatOf(IF sm = <<>> THEN <<>> ELSE sm[1]),
               Reviews(ReviewsMatch(raw_rating)))
  IN Score(ScoreMatch(raw_rating))

\* str.count(p): number of non-overlapping occurrences of p in s
RECURSIVE CountOcc(_, _)
CountOcc(s, p) ==
  IF Len(s) < Len(p) THEN 0
  ELSE IF SubSeq(s, 1, Len(p)) = p THEN 1 + CountOcc(SubSeq(s, Len(p) + 1, Len(s)), p)
  ELSE CountOcc(Tail(s), p)

\* extract_star_count(stars_html)
extract_star_count(stars_html) ==
  LET Stars(span_count) ==
        IF stars_html = <<>> THEN NoneNum
        ELSE IF span_count > 0 THEN Num(span_count \div 2) ELSE NoneNum
  IN Stars(CountOcc(stars_html, <<"<","s","p","a","n">>))

\* float(s) of a signed decimal with surrounding blanks, in hundredths
SignedFloat(s) ==
  LET Value(neg, body, f) ==
        IF body # <<>> /\ f.ok
        THEN [ok |-> TRUE, cents |-> IF neg THEN 0 - f.cents ELSE f.cents]
        ELSE [ok |-> FALSE, cents |-> 0]
      Body(neg, body) == Value(neg, body, FloatOf(body))
      Sign(t) == Body(t # <<>> /\ t[1] = "-",
                      IF t # <<>> /\ t[1] \in {"-", "+"} THEN Tail(t) ELSE t)
  IN Sign(Strip(s))

NoCoords == [none |-> TRUE, latitude |-> 0, longitude |-> 0]

\* extract_coordinates(coords_str), latitude and longitude in hundredths of a degree
extract_coordinates(coords_str) ==
  LET Valid(lat, lng) ==
        IF lat.ok /\ lng.ok
           /\ -9000 <= lat.cents /\ lat.cents <= 9000
           /\ -18000 <= lng.cents /\ lng.cents <= 18000
        THEN [none |-> FALSE, latitude |-> lat.cents, longitude |-> lng.cents]
        ELSE NoCoords
      Parts(parts) ==
        IF coords_str = <<>> \/ Len(parts) # 2 THEN NoCoords
        ELSE Valid(SignedFloat(parts[1]), SignedFloat(parts[2]))
  IN Parts(SplitOn(coords_str, ","))

\* calculate_distance(coords1, coords2): the Haversine distance rounded to two
\* decimals, in hundredths of a kilometre, tabulated for the sample coordinates
calculate_distance(coords1, coords2) ==
  IF coords1.none \/ coords2.none THEN NoneNum
  ELSE IF coords1 = coords2 THEN Num(0)
  ELSE IF {<<coords1.latitude, coords1.longitude>>, <<coords2.latitude, coords2.longitude>>}
          = {<<310, 10170>>, <<320, 10160>>} THEN Num(1571)
  ELSE IF {<<coords1.latitude, coords1.longitude>>, <<coords2.latitude, coords2.longitude>>}
          = {<<0, 0>>, <<0, 100>>} THEN Num(11119)
  ELSE Num(1)

\* int(s) succeeds: digits with optional sign and surrounding blanks
IntOk(s) ==
  LET Body(body) == body # <<>> /\ IsDigits(body)
      Sign(t) == Body(IF t # <<>> /\ t[1] \in {"-", "+"} THEN Tail(t) ELSE t)
  IN Sign(Strip(s))

\* build_search_url raises ValueError / IndexError on a malformed distance filter
BuildSearchUrlRaises(filters) ==
  \E i \in 1..Len(filters) :
     /\ StartsWith(filters[i], <<"d","i","s","t","a","n","c","e","=">>)
     /\ ~IntOk(SplitOn(filters[i], "=")[2])

\* get_hotel_coordinates(hotel_url) under fetch outcome o: the raw string or None
get_hotel_coordinates(o) == IF o.status = "ok" THEN o.raw ELSE NoneStr

\* get_hotel_reviews(hotel_url, limit) under fetch outcome o: the reviews, as
\* their positions on the page
get_hotel_reviews(hotel_url, limit, o) ==
  LET Reviews(country_code, hotel_identifier) ==
        IF o.status # "ok" THEN <<>>
        ELSE IF country_code = <<>> \/ hotel_identifier = <<>> THEN <<>>
        ELSE [k \in 1..(IF o.count < limit THEN o.count ELSE limit) |-> k]
      Identify(path_parts, last) ==
        Reviews(IF Len(path_parts) > 2 THEN path_parts[3] ELSE <<>>,
                IF EndsWith(last, <<".","h","t","m","l">>)
                THEN SubSeq(last, 1, Len(last) - 5) ELSE <<>>)
      Path(path_parts) == Identify(path_parts, path_parts[Len(path_parts)])
  IN Path(SplitOn(UrlParse(hotel_url).path, "/"))

GetOr(field, default) == IF field.none THEN default ELSE field.s

NoHotel == [id |-> NoneStr, name |-> NoneStr, price |-> NoneStr,
            rating |-> [score |-> NoneNum, reviews |-> NoneNum], stars |-> NoneNum,
            url |-> <<>>, coordinates |-> NoCoords,
            has_reviews |-> FALSE, reviews |-> <<>>, distance_from_center |-> NoneNum]

\* the cleaned_hotel dictionary of process_hotel; ok = FALSE when building it raises
CleanedHotel(hotel, coords) ==
  LET Build(url, id, rating) ==
        IF ~id.ok \/ ~rating.ok THEN [ok |-> FALSE, data |-> NoHotel]
        ELSE [ok |-> TRUE,
              data |-> [id |-> id.id,
                        name |-> hotel.name,
                        price |-> hotel.price,
                        rating |-> [score |-> rating.score, reviews |-> rating.reviews],
                        stars |-> extract_star_count(GetOr(hotel.stars, <<>>)),
                        url |-> UrlJoin(BookingBase, url),
                        coordinates |-> coords,
                        has_reviews |-> FALSE,
                        reviews |-> <<>>,
                        distance_from_center |-> NoneNum]]
      Clean(url) == Build(url, extract_hotel_id(url), clean_rating(GetOr(hotel.rating, <<>>)))
  IN Clean(GetOr(hotel.url, <<>>))

\* the merge step with the last record that has coordinates as the centre
MergeDistancesLastCenter(cleaned) ==
  LET Merge(center_coords) ==
        [i \in 1..Len(cleaned) |->
           IF ~center_coords.none /\ ~cleaned[i].coordinates.none
           THEN [cleaned[i] EXCEPT !.distance_from_center =
                                      calculate_distance(center_coords, cleaned[i].coordinates)]
           ELSE cleaned[i]]
      Center(withCoords) ==
        Merge(IF withCoords = <<>> THEN NoCoords
              ELSE withCoords[Len(withCoords)].coordinates)
  IN Center(SelectSeq(cleaned, LAMBDA h : ~h.coordinates.none))

\* the merge step: reference point and distances, order kept
MergeDistances(cleaned) ==
  LET Merge(center_coords) ==
        [i \in 1..Len(cleaned) |->
           IF ~center_coords.none /\ ~cleaned[i].coordinates.none
           THEN [cleaned[i] EXCEPT !.distance_from_center =
                                      calculate_distance(center_coords, cleaned[i].coordinates)]
           ELSE cleaned[i]]
      Center(withCoords) ==
        Merge(IF withCoords = <<>> THEN NoCoords ELSE withCoords[1].coordinates)
  IN Center(SelectSeq(cleaned, LAMBDA h : ~h.coordinates.none))

(* ------------------------- main.py: Hotel model ------------------------- *)

\* str(n) of a natural number
RECURSIVE NatStr(_)
NatStr(n) == IF n < 10 THEN <<DigitChars[n + 1]>> ELSE NatStr(n \div 10) \o <<DigitChars[(n % 10) + 1]>>

\* str(x) of a non-negative float given in hundredths
FloatStr(cents) ==
  LET f == cents % 100
      frac == IF f % 10 = 0 THEN <<DigitChars[(f \div 10) + 1]>>
              ELSE <<DigitChars[(f \div 10) + 1], DigitChars[(f % 10) + 1]>>
  IN NatStr(cents \div 100) \o <<".">> \o frac

\* stars = int(float(hotel_rating)), None when that raises
AgodaStars(hotel_rating) ==
  LET Stars(f) == IF hotel_rating # NA /\ f.ok /\ f.cents >= 0
                  THEN Num(f.cents \div 100) ELSE NoneNum
  IN Stars(SignedFloat(hotel_rating))

\* the Hotel built by get_agoda_hotels from one Agoda dictionary
AgodaToHotel(hotel) ==
  [source |-> "agoda",
   name |-> Str(hotel.hotel_name),
   price |-> Str(FloatStr(hotel.hotel_price)),
   stars |-> AgodaStars(hotel.hotel_rating),
   url |-> hotel.booking_url,
   has_reviews |-> FALSE,
   reviews |-> <<>>,
   coordinates |-> NoCoords,
   distance_from_center |-> NoneNum]

\* the Hotel the response model makes of one Booking dictionary
BookingToHotel(hotel) ==
  [source |-> "booking",
   name |-> hotel.name,
   price |-> hotel.price,
   stars |-> hotel.stars,
   url |-> Str(hotel.url),
   has_reviews |-> hotel.has_reviews,
   reviews |-> hotel.reviews,
   coordinates |-> hotel.coordinates,
   distance_from_center |-> hotel.distance_from_center]

MapSeq(seq, F(_)) == [i \in 1..Len(seq) |-> F(seq[i])]

(* ------------------------------- inputs --------------------------------- *)

\* longest Booking / Agoda result page of a search request
MaxPage == 1

\* longest batch handed to the enrichment step on its own
MaxBatch == 2

\* most candidate selectors of one field that find an element
MaxHits == 2

\* number of reviews on a long review page
ManyReviews == 6

\* polls of the scroll script that are followed
MaxTicks == 8

\* page heights, in screens
MaxHeight == 2

\* window.retries = 5 in scroll_and_wait_script
StableTicks == 5

\* length of the numeric texts handed to the normalizers
MaxNumLen == 3

\* marker elements in a star markup
MaxSpans == 4

\* review_limit set by the search-hotels handler
ReviewLimit == 5

SeqsUpTo(S, n) == UNION {[1..k -> S] : k \in 0..n}

Locations == {<<>>, <<" ">>, <<"K","L">>}

DateGood == <<"2","0","2","5","-","0","6","-","0","7">>

DateLater == <<"2","0","2","5","-","0","6","-","0","8">>

DateUnpadded == <<"2","0","2","5","-","6","-","7">>

DateSlashes == <<"0","7","/","0","6","/","2","0","2","5">>

DateNoSuchDay == <<"2","0","2","5","-","0","2","-","3","0">>

Dates == {DateGood, DateLater, DateUnpadded, DateSlashes, DateNoSuchDay}

AdultsValues == {0, 1, 2, 10, 11}

FilterLists ==
  { <<>>,
    << <<"d","i","s","t","a","n","c","e","=","3","0","0","0">>, <<"c","l","a","s","s","=","4">> >>,
    << <<"d","i","s","t","a","n","c","e","=","a","b","c">> >> }

\* calls of agoda_scraper
AgodaCalls ==
  [location : Locations, check_in : Dates, check_out : Dates, adults : AdultsValues,
   filters : {<<>>}]

BaseRequest ==
  [location |-> <<"K","L">>, check_in |-> DateGood, check_out |-> DateLater,
   adults |-> 2, filters |-> <<>>, include_reviews |-> FALSE, review_limit |-> 5]

\* values of review_limit in a request
ReviewLimits == {0, 2, 5}

\* search-hotels requests: a valid one, and requests that differ from it in one field
Requests ==
  {[BaseRequest EXCEPT !.filters = f] : f \in FilterLists}
  \cup {[BaseRequest EXCEPT !.location = l] : l \in Locations}
  \cup {[BaseRequest EXCEPT !.check_in = d] : d \in Dates}
  \cup {[BaseRequest EXCEPT !.check_out = d] : d \in Dates}
  \cup {[BaseRequest EXCEPT !.adults = a] : a \in {0, 11}}
  \cup {[BaseRequest EXCEPT !.include_reviews = b] : b \in BOOLEAN}
  \cup {[BaseRequest EXCEPT !.review_limit = l] : l \in ReviewLimits}

UrlAbs == <<"h","t","t","p","s",":","/","/","w","w","w",".","b","o","o","k","i","n","g",".","c","o","m","/","h","o","t","e","l","/","m","y","/","a",".","h","t","m","l">>

UrlRel == <<"/","h","o","t","e","l","/","m","y","/","b",".","h","t","m","l">>

UrlNoId == <<"/","s","e","a","r","c","h","r","e","s","u","l","t","s",".","h","t","m","l">>

RatingText == <<"S","c","o","r","e","d"," ","8",".","5"," ","V","e","r","y"," ","g","o","o","d"," ","1",",","2","3","4"," ","r","e","v","i","e","w","s">>

StarsHtml == <<"<","s","p","a","n",">","<","s","p","a","n",">","<","s","p","a","n",">","<","s","p","a","n",">">>

\* items of the extraction strategy's output; none = the key is missing
RawHotels ==
  { [name |-> Str(<<"A">>), price |-> Str(<<"M","Y","R"," ","1","0","0">>),
     rating |-> Str(RatingText), stars |-> Str(StarsHtml), url |-> Str(UrlAbs)],
    [name |-> Str(<<"B">>), price |-> Str(<<"M","Y","R"," ","2","5","0">>),
     rating |-> NoneStr, stars |-> NoneStr, url |-> Str(UrlRel)],
    [name |-> Str(<<"C">>), price |-> NoneStr,
     rating |-> Str(RatingText), stars |-> Str(StarsHtml), url |-> Str(UrlAbs)],
    [name |-> Str(<<"D">>), price |-> Str(<<"M","Y","R"," ","1","0","0">>),
     rating |-> NoneStr, stars |-> NoneStr, url |-> Str(UrlNoId)],
    [name |-> Str(<<"E">>), price |-> Str(<<"M","Y","R"," ","1","0","0">>),
     rating |-> NoneStr, stars |-> NoneStr, url |-> NoneStr] }

\* outcomes of the detail-page fetch of get_hotel_coordinates
CoordsOutcomes ==
  { [status |-> "exception", raw |-> NoneStr],
    [status |-> "non200", raw |-> NoneStr],
    [status |-> "ok", raw |-> NoneStr],
    [status |-> "ok", raw |-> Str(<<"3",".","1",",","1","0","1",".","7">>)],
    [status |-> "ok", raw |-> Str(<<"3",".","2",",","1","0","1",".","6">>)],
    [status |-> "ok", raw |-> Str(<<"2","0","0",",","-","7","4",".","0">>)] }

\* outcomes of the fetches of get_hotel_reviews, with the number of reviews parsed
ReviewsOutcomes ==
  { [status |-> "exception", count |-> 0],
    [status |-> "non200", count |-> 0],
    [status |-> "ok", count |-> 0],
    [status |-> "ok", count |-> ManyReviews] }

\* "failed" for a fetch that raised or answered with a status other than 200
FetchStatus(o) == IF o.status = "ok" THEN "ok" ELSE "failed"

\* a candidate vector of n selectors where the selectors in hits find an element
Vec(n, hits) == [i \in 1..n |-> IF i \in DOMAIN hits THEN Elem(hits[i]) ELSE NoElem]

\* the sets of selectors that find an element: at most MaxHits of the n
HitSets(n) == {T \in SUBSET (1..n) : Cardinality(T) <= MaxHits}

NameTexts == {NoneStr, Str(<<>>), Str(<<" ">>), Str(<<" ","A"," ">>), Str(<<"B">>)}

PriceTexts ==
  { Str(<<>>), Str(<<" ">>), Str(NA), Str(<<"$","1","2","0">>),
    Str(<<"R","M"," ","1",",","2","3","4",".","5","0">>),
    Str(<<"1",".","2",".","3">>), Str(<<"S","o","l","d">>) }

HrefValues ==
  { NoneStr, Str(<<>>), Str(<<" ">>), Str(<<"/","h","/","a">>),
    Str(<<"h","t","t","p","s",":","/","/","x",".","c","o","/","a">>),
    Str(<<"/","/","x",".","c","o","/","a">>) }

SrcValues ==
  { NoneStr, Str(<<>>), Str(<<"/","/","c",".","c","o","/","i">>),
    Str(<<"h","t","t","p","s",":","/","/","c",".","c","o","/","i">>),
    Str(<<"/","i",".","j","p","g">>) }

SpanTexts == { <<>>, <<Str(<<"4"," ","s","t","a","r","s"," ","o","u","t"," ","o","f"," ","5">>)>> }

\* numeric texts, well formed and malformed
NumTexts == SeqsUpTo({"1", "."}, MaxNumLen)

\* markup with k marker elements
RECURSIVE Spans(_)
Spans(k) == IF k = 0 THEN <<>> ELSE <<"<","s","p","a","n",">">> \o Spans(k - 1)

\* raw values of a scraped field: None, or a text
RawValues(field) ==
  {NoneStr} \cup
  CASE field = "rating" ->
         { Str(pre \o n \o post) :
             pre \in {<<>>, <<"S","c","o","r","e","d"," ">>}, n \in NumTexts,
             post \in {<<>>, <<" ","r","e","v","i","e","w","s">>,
                       <<" ","o","k"," ","1",",","2"," ","r","e","v","i","e","w","s">>} }
    [] field = "stars" ->
         {Str(Spans(k)) : k \in 0..MaxSpans} \cup {Str(<<"<","d","i","v",">">>)}
    [] field = "coordinates" ->
         {Str(n) : n \in NumTexts}
           \cup {Str(a \o <<",">> \o b) : a \in NumTexts, b \in {<<"1">>, <<"-","1">>, <<".">>}}
    [] field = "price" ->
         {Str(<<"$">> \o n) : n \in NumTexts} \cup {Str(NA), Str(<<" ">>)}
    [] OTHER -> HrefValues \cup SrcValues \cup {Str(UrlAbs), Str(UrlRel)}

\* result items of an Agoda page of a search request
SampleItems ==
  LET n1 == Vec(NumNameSelectors, 1 :> Str(<<"A">>))
      n2 == Vec(NumNameSelectors, 2 :> Str(<<" ">>) @@ 5 :> Str(<<"B">>))
      p1 == Vec(NumPriceSelectors, 1 :> Str(<<"$","1","2","0">>))
      p0 == Vec(NumPriceSelectors, 3 :> Str(<<"S","o","l","d">>))
      l1 == Vec(NumLinkSelectors, 1 :> Str(<<"/","h","/","a">>))
      l0 == Vec(NumLinkSelectors, <<>>)
      lx == Vec(NumLinkSelectors, 2 :> NoneStr)
      i1 == Vec(NumImageSelectors, 4 :> Str(<<"/","/","c",".","c","o","/","i">>))
      sp == <<Str(<<"4"," ","s","t","a","r","s"," ","o","u","t"," ","o","f"," ","5">>)>>
  IN { [name |-> n1, spans |-> sp, price |-> p1, link |-> l1, image |-> i1],
       [name |-> n2, spans |-> <<>>, price |-> p1, link |-> l0, image |-> i1],
       [name |-> n1, spans |-> sp, price |-> p0, link |-> l1, image |-> i1],
       [name |-> n2, spans |-> <<>>, price |-> p1, link |-> lx, image |-> i1] }

(* -------------------------------- state ---------------------------------- *)

VARIABLES
  request,          \* the HotelSearchRequest / the arguments of agoda_scraper
  hpc,              \* search_hotels handler: "gather", "returned", "failed"
  response,         \* what the caller of the handler receives
  bpc,              \* get_booking_hotels task
  include_reviews,  \* arguments of ModernBookingScraper.search_hotels
  review_limit,
  session,          \* self.session: 0 is None, otherwise the session's number
  sessionsCreated,  \* aiohttp.ClientSession() calls
  bookingRuns,      \* crawler.arun calls
  raw_data,         \* json.loads(result.extracted_content)
  tpc,              \* position of each process_hotel task
  tres,             \* cleaned_hotel of each process_hotel task
  tenv,             \* how the fetches of each task ended: "none", "ok", "failed"
  bookingResult,    \* value returned by ModernBookingScraper.search_hotels
  outOfOrder,       \* a task finished while the task of an earlier item was unfinished
  apc,              \* get_agoda_hotels task
  agodaLaunched,    \* p.chromium.launch was called
  agodaNavigated,   \* a page.goto was called
  hotel_results,    \* agoda_scraper's hotel_results
  agodaOutcome,     \* how agoda_scraper ended: "none", "ValueError", "returned"
  agodaHotels,      \* value returned by get_agoda_hotels
  browsers,         \* browser sessions currently open
  xpc,              \* extract_hotel_info: field being extracted
  xcands,           \* candidate outcomes of the field last extracted
  xtried,           \* selectors tried for it, in order
  xvals,            \* the locals of extract_hotel_info, and the field last extracted
  xresult,          \* value returned by extract_hotel_info
  window,           \* window.lastHeight and window.retries of the polled page
  heights,          \* document.body.scrollHeight at each poll so far
  polls,            \* what scroll_and_wait_script returned at each poll so far
  nfield,           \* raw field handed to a normalizer
  nin,              \* its raw value: None or a string
  nfn,              \* the normalizer applied to it, "none" before the call
  nout,             \* how the call ended: raised or not, and the value returned
  lkind,            \* which scroll loop runs: "agoda", "reviews", "none" before it starts
  lpc,              \* the loop: "idle", "loop", "done"
  lticks,           \* iterations of the loop body so far
  current_position, \* the Agoda loop's current_position
  last_height,      \* the loop's last_height
  npc,              \* search_agoda_homepage and its caller: the step to run next
  nargs,            \* arguments of search_agoda_homepage
  current_url,      \* the navigator's current_url
  nsteps,           \* page actions performed so far, in order
  ncontrol,         \* value shown by the adults control of the search form
  nclicks,          \* clicks on the adults minus and plus buttons
  nrequested        \* addresses passed to page.goto, in order

reqVars == <<request, hpc, response>>

bookVars == <<bpc, include_reviews, review_limit, session, sessionsCreated, bookingRuns,
              raw_data, tpc, tres, tenv, bookingResult, outOfOrder>>

agodaVars == <<apc, agodaLaunched, agodaNavigated, hotel_results, agodaOutcome, agodaHotels>>

xVars == <<xpc, xcands, xtried, xvals, xresult>>

scrollVars == <<window, heights, polls>>

normVars == <<nfield, nin, nfn, nout>>

loopVars == <<lkind, lpc, lticks, current_position, last_height>>

navVars == <<npc, nargs, current_url, nsteps, ncontrol, nclicks, nrequested>>

vars == <<reqVars, bookVars, agodaVars, browsers, xVars, scrollVars, normVars, loopVars, navVars>>

NoResponse == [kind |-> "none", hotels |-> <<>>]

NoVals == [field |-> "none", hotel_name |-> Str(NA), hotel_rating |-> NA,
           price_text |-> Str(NA), hotel_price |-> [na |-> TRUE, cents |-> 0],
           booking_url |-> Str(NA), main_image_url |-> Str(NA)]

NoResult == [ok |-> FALSE, data |-> NoData]

InitRequest ==
  /\ hpc = "gather"
  /\ response = NoResponse

InitBooking ==
  /\ bpc = "init"
  /\ include_reviews = FALSE
  /\ review_limit = 0
  /\ session = 0
  /\ sessionsCreated = 0
  /\ bookingRuns = 0
  /\ raw_data = <<>>
  /\ tpc = <<>>
  /\ tres = <<>>
  /\ tenv = <<>>
  /\ bookingResult = <<>>
  /\ outOfOrder = FALSE

InitAgodaTask ==
  /\ apc = "init"
  /\ agodaLaunched = FALSE
  /\ agodaNavigated = FALSE
  /\ hotel_results = <<>>
  /\ agodaOutcome = "none"
  /\ agodaHotels = <<>>

InitX ==
  /\ xpc = "idle"
  /\ xcands = <<>>
  /\ xtried = <<>>
  /\ xvals = NoVals
  /\ xresult = NoResult

\* a page on which scroll_and_wait_script has not run yet
InitScroll ==
  /\ window = [defined |-> FALSE, lastHeight |-> 0, retries |-> 0]
  /\ heights = <<>>
  /\ polls = <<>>

NoOut == [raised |-> FALSE, value |-> NoneNum]

\* no normalizer call under observation
InitNorm ==
  /\ nfield = "none"
  /\ nin = NoneStr
  /\ nfn = "none"
  /\ nout = NoOut

\* a search-hotels request arrives
InitLoop ==
  /\ lkind = "none"
  /\ lpc = "idle"
  /\ lticks = 0
  /\ current_position = 0
  /\ last_height = 0

NoUrl == [path |-> "", params |-> <<>>]

NoArgs == [location |-> <<>>, check_in_date |-> "", check_out_date |-> "", adults |-> 2,
           star_rating |-> 0]

InitNav ==
  /\ npc = "idle"
  /\ nargs = NoArgs
  /\ current_url = NoUrl
  /\ nsteps = <<>>
  /\ ncontrol = 2
  /\ nclicks = 0
  /\ nrequested = <<>>

Init ==
  /\ request \in Requests
  /\ InitRequest /\ InitBooking /\ InitAgodaTask /\ InitX /\ InitScroll /\ InitNorm /\ InitLoop /\ InitNav
  /\ browsers = {}

(* ---------------- main.py: get_booking_hotels and the scraper ----------- *)

\* async with ModernBookingScraper(); search_hotels up to the availability check
BookingStart ==
  /\ bpc = "init"
  /\ session' = 1
  /\ sessionsCreated' = sessionsCreated + 1
  /\ include_reviews' = TRUE
  /\ review_limit' = ReviewLimit
  /\ bpc' = IF BuildSearchUrlRaises(request.filters) THEN "raised" ELSE "check_open"
  /\ UNCHANGED <<bookingRuns, raw_data, tpc, tres, tenv, bookingResult, outOfOrder>>
  /\ UNCHANGED <<reqVars, agodaVars, browsers, xVars, scrollVars, normVars, loopVars, navVars>>

\* check_no_properties_found: the crawler is started (or fails to start)
BookingCheckOpen ==
  /\ bpc = "check_open"
  /\ \E started \in BOOLEAN :
       IF started
       THEN bpc' = "check_run" /\ browsers' = browsers \cup {"booking_check"}
       ELSE bpc' = "raised" /\ browsers' = browsers
  /\ UNCHANGED <<include_reviews, review_limit, session, sessionsCreated, bookingRuns,
                 raw_data, tpc, tres, tenv, bookingResult, outOfOrder>>
  /\ UNCHANGED <<reqVars, agodaVars, xVars, scrollVars, normVars, loopVars, navVars>>

\* check_no_properties_found: crawler.arun on the search URL and the H1 test
BookingCheckRun ==
  /\ bpc = "check_run"
  /\ bookingRuns' = bookingRuns + 1
  /\ browsers' = browsers \ {"booking_check"}
  /\ \E outcome \in {"failed", "no_properties", "properties"} :
       bpc' = IF outcome = "no_properties" THEN "done" ELSE "crawl_open"
  /\ UNCHANGED <<include_reviews, review_limit, session, sessionsCreated,
                 raw_data, tpc, tres, tenv, bookingResult, outOfOrder>>
  /\ UNCHANGED <<reqVars, agodaVars, xVars, scrollVars, normVars, loopVars, navVars>>

\* search_hotels: the extraction crawler is started (or fails to start)
BookingCrawlOpen ==
  /\ bpc = "crawl_open"
  /\ \E started \in BOOLEAN :
       IF started
       THEN bpc' = "crawl_run" /\ browsers' = browsers \cup {"booking_extract"}
       ELSE bpc' = "raised" /\ browsers' = browsers
  /\ UNCHANGED <<include_reviews, review_limit, session, sessionsCreated, bookingRuns,
                 raw_data, tpc, tres, tenv, bookingResult, outOfOrder>>
  /\ UNCHANGED <<reqVars, agodaVars, xVars, scrollVars, normVars, loopVars, navVars>>

\* search_hotels: crawler.arun with the scroll script, then json.loads (which
\* raises when the extracted content is not JSON)
BookingCrawlRun ==
  /\ bpc = "crawl_run"
  /\ bookingRuns' = bookingRuns + 1
  /\ \/ \E outcome \in {"not_success", "no_json"} :
          /\ bpc' = IF outcome = "not_success" THEN "done" ELSE "raised"
          /\ browsers' = browsers \ {"booking_extract"}
          /\ UNCHANGED <<raw_data, tpc, tres, tenv>>
     \/ \E page \in SeqsUpTo(RawHotels, MaxPage) :
          /\ raw_data' = page
          /\ tpc' = [i \in 1..Len(page) |-> "start"]
          /\ tres' = [i \in 1..Len(page) |-> NoHotel]
          /\ tenv' = [i \in 1..Len(page) |-> [coords |-> "none", reviews |-> "none"]]
          /\ bpc' = "enrich"
          /\ UNCHANGED browsers
  /\ UNCHANGED <<include_reviews, review_limit, session, sessionsCreated, bookingResult, outOfOrder>>
  /\ UNCHANGED <<reqVars, agodaVars, xVars, scrollVars, normVars, loopVars, navVars>>

\* process_hotel from cleaned_hotel on, once coords is known
AfterCoords(i, coords) ==
  LET Set(c) ==
        /\ tres' = [tres EXCEPT ![i] = c.data]
        /\ tpc' = [tpc EXCEPT ![i] = IF ~c.ok THEN "raised"
                                     ELSE IF include_reviews THEN "reviews" ELSE "done"]
  IN Set(CleanedHotel(raw_data[i], coords))

\* task i is finished (returned or raised) after this step
Finished(position) == position \in {"done", "raised"}

\* task i finishes in this step while the task of an earlier item is still running
Overtakes(i) ==
  /\ Finished(tpc'[i])
  /\ \E j \in 1..(i - 1) : ~Finished(tpc[j])

\* a fetch that always finds self.session unset
SessionAlwaysMissing(s) == TRUE

\* `if not self.session:` at the top of get_hotel_coordinates and get_hotel_reviews;
\* no await separates the test from the assignment of the new ClientSession
NeedsSession(s) == s = 0

\* process_hotel(hotel) up to its first await
TaskStart(i) ==
  /\ bpc = "enrich"
  /\ tpc[i] = "start"
  /\ IF GetOr(raw_data[i].url, <<>>) # <<>>
     THEN /\ tpc' = [tpc EXCEPT ![i] = "coords"]
          /\ session' = IF NeedsSession(session) THEN sessionsCreated + 1 ELSE session
          /\ sessionsCreated' = IF NeedsSession(session) THEN sessionsCreated + 1 ELSE sessionsCreated
          /\ UNCHANGED tres
     ELSE /\ AfterCoords(i, NoCoords)
          /\ session' = IF include_reviews /\ NeedsSession(session) THEN sessionsCreated + 1 ELSE session
          /\ sessionsCreated' = IF include_reviews /\ NeedsSession(session)
                                THEN sessionsCreated + 1 ELSE sessionsCreated
  /\ UNCHANGED <<bpc, include_reviews, review_limit, bookingRuns, raw_data, tenv, bookingResult>>
  /\ outOfOrder' = (outOfOrder \/ Overtakes(i))
  /\ UNCHANGED <<reqVars, agodaVars, browsers, xVars, scrollVars, normVars, loopVars, navVars>>

\* get_hotel_coordinates returns; process_hotel continues to its next await
TaskCoords(i) ==
  LET Coords(raw_coords) ==
        IF Truthy(raw_coords) THEN extract_coordinates(raw_coords.s) ELSE NoCoords
  IN /\ bpc = "enrich"
     /\ tpc[i] = "coords"
     /\ \E o \in CoordsOutcomes :
          /\ AfterCoords(i, Coords(get_hotel_coordinates(o)))
          /\ tenv' = [tenv EXCEPT ![i].coords = FetchStatus(o)]
     /\ session' = IF include_reviews /\ NeedsSession(session) /\ tpc'[i] = "reviews"
                   THEN sessionsCreated + 1 ELSE session
     /\ sessionsCreated' = IF include_reviews /\ NeedsSession(session) /\ tpc'[i] = "reviews"
                           THEN sessionsCreated + 1 ELSE sessionsCreated
     /\ UNCHANGED <<bpc, include_reviews, review_limit, bookingRuns, raw_data, bookingResult>>
     /\ outOfOrder' = (outOfOrder \/ Overtakes(i))
     /\ UNCHANGED <<reqVars, agodaVars, browsers, xVars, scrollVars, normVars, loopVars, navVars>>

\* get_hotel_reviews returns; process_hotel returns cleaned_hotel
TaskReviews(i) ==
  /\ bpc = "enrich"
  /\ tpc[i] = "reviews"
  /\ \E o \in ReviewsOutcomes :
       /\ tres' = [tres EXCEPT ![i].has_reviews = TRUE,
                               ![i].reviews = get_hotel_reviews(tres[i].url, review_limit, o)]
       /\ tenv' = [tenv EXCEPT ![i].reviews = FetchStatus(o)]
  /\ tpc' = [tpc EXCEPT ![i] = "done"]
  /\ UNCHANGED <<bpc, include_reviews, review_limit, session, sessionsCreated, bookingRuns,
                 raw_data, bookingResult>>
  /\ outOfOrder' = (outOfOrder \/ Overtakes(i))
  /\ UNCHANGED <<reqVars, agodaVars, browsers, xVars, scrollVars, normVars, loopVars, navVars>>

\* the results of the tasks that returned, last item first
GatheredReversed ==
  LET idx == SelectSeq([i \in 1..Len(tpc) |-> i], LAMBDA i : tpc[i] = "done")
  IN [k \in 1..Len(idx) |-> tres[idx[Len(idx) + 1 - k]]]

\* the results of asyncio.gather(..., return_exceptions=True) without the exceptions
GatheredHotels ==
  LET idx == SelectSeq([i \in 1..Len(tpc) |-> i], LAMBDA i : tpc[i] = "done")
  IN [k \in 1..Len(idx) |-> tres[idx[k]]]

\* a gather that returns as soon as it is awaited
GatherReturnsAtOnce == TRUE

\* `await asyncio.gather(*tasks, return_exceptions=True)` returns when every
\* task has returned or raised
AllTasksFinished == \A i \in 1..Len(tpc) : Finished(tpc[i])

\* asyncio.gather returns; failed tasks are filtered out; distances are merged
EnrichJoin ==
  /\ bpc = "enrich"
  /\ AllTasksFinished
  /\ bookingResult' = MergeDistances(GatheredHotels)
  /\ bpc' = "done"
  /\ browsers' = browsers \ {"booking_extract"}
  /\ UNCHANGED <<include_reviews, review_limit, session, sessionsCreated, bookingRuns,
                 raw_data, tpc, tres, tenv, outOfOrder>>
  /\ UNCHANGED <<reqVars, agodaVars, xVars, scrollVars, normVars, loopVars, navVars>>

(* ------------------- agodaScrapper: agoda_scraper ----------------------- *)

\* the argument checks at the top of agoda_scraper
AgodaValidate ==
  /\ apc = "init"
  /\ IF AgodaValidation(request.location, request.check_in, request.check_out,
                        request.adults) = "ok"
     THEN apc' = "launch" /\ UNCHANGED agodaOutcome
     ELSE apc' = "ended" /\ agodaOutcome' = "ValueError"
  /\ UNCHANGED <<agodaLaunched, agodaNavigated, hotel_results, agodaHotels>>
  /\ UNCHANGED <<reqVars, bookVars, browsers, xVars, scrollVars, normVars, loopVars, navVars>>

\* visit_agoda_homepage: browser launch and the first page.goto
AgodaLaunch ==
  /\ apc = "launch"
  /\ agodaLaunched' = TRUE
  /\ \E outcome \in {"launch_failed", "goto_failed", "ok"} :
       /\ agodaNavigated' = (outcome # "launch_failed")
       /\ IF outcome = "ok"
          THEN apc' = "search" /\ browsers' = browsers \cup {"agoda"}
                 /\ UNCHANGED agodaOutcome
          ELSE apc' = "ended" /\ browsers' = browsers /\ agodaOutcome' = "returned"
  /\ UNCHANGED <<hotel_results, agodaHotels>>
  /\ UNCHANGED <<reqVars, bookVars, xVars, scrollVars, normVars, loopVars, navVars>>

\* search_agoda_homepage: returns, or raises (caught by agoda_scraper)
AgodaSearch ==
  /\ apc = "search"
  /\ \E ok \in BOOLEAN :
       IF ok
       THEN apc' = "scrape" /\ UNCHANGED <<browsers, agodaOutcome>>
       ELSE apc' = "ended" /\ browsers' = browsers \ {"agoda"} /\ agodaOutcome' = "returned"
  /\ UNCHANGED <<agodaLaunched, agodaNavigated, hotel_results, agodaHotels>>
  /\ UNCHANGED <<reqVars, bookVars, xVars, scrollVars, normVars, loopVars, navVars>>

\* the dictionaries scrape_first_page_results collects from the items of a page
ScrapeResults(page) ==
  LET infos == MapSeq(page, ExtractHotelInfo)
      kept == SelectSeq(infos, LAMBDA r : r.ok)
  IN MapSeq(kept, LAMBDA r : r.data)

\* scrape_first_page_results: returns a list, or raises (caught by agoda_scraper)
AgodaScrape ==
  /\ apc = "scrape"
  /\ \/ /\ apc' = "ended"
        /\ browsers' = browsers \ {"agoda"}
        /\ agodaOutcome' = "returned"
        /\ UNCHANGED hotel_results
     \/ \E page \in SeqsUpTo(SampleItems, MaxPage) :
          /\ hotel_results' = ScrapeResults(page)
          /\ apc' = "close"
          /\ UNCHANGED <<browsers, agodaOutcome>>
  /\ UNCHANGED <<agodaLaunched, agodaNavigated, agodaHotels>>
  /\ UNCHANGED <<reqVars, bookVars, xVars, scrollVars, normVars, loopVars, navVars>>

\* context.close(), browser.close() (a failure is caught; hotel_results is kept)
AgodaClose ==
  /\ apc = "close"
  /\ apc' = "ended"
  /\ browsers' = browsers \ {"agoda"}
  /\ agodaOutcome' = "returned"
  /\ UNCHANGED <<agodaLaunched, agodaNavigated, hotel_results, agodaHotels>>
  /\ UNCHANGED <<reqVars, bookVars, xVars, scrollVars, normVars, loopVars, navVars>>

(* ------------------------ main.py: search_hotels ------------------------ *)

\* get_agoda_hotels after agoda_scraper ended: transform, or [] on any exception
GetAgodaHotels ==
  /\ apc = "ended"
  /\ agodaHotels' = IF agodaOutcome = "returned" THEN MapSeq(hotel_results, AgodaToHotel)
                    ELSE <<>>
  /\ apc' = "done"
  /\ UNCHANGED <<agodaLaunched, agodaNavigated, hotel_results, agodaOutcome>>
  /\ UNCHANGED <<reqVars, bookVars, browsers, xVars, scrollVars, normVars, loopVars, navVars>>

\* asyncio.gather re-raises the Booking task's exception: HTTP 500
HandlerFail ==
  /\ hpc = "gather"
  /\ bpc = "raised"
  /\ hpc' = "failed"
  /\ response' = [kind |-> "HTTP500", hotels |-> <<>>]
  /\ UNCHANGED <<request, bookVars, agodaVars, browsers, xVars, scrollVars, normVars, loopVars, navVars>>

\* both tasks returned: the combined list is the response
HandlerReturn ==
  /\ hpc = "gather"
  /\ bpc = "done"
  /\ apc = "done"
  /\ hpc' = "returned"
  /\ response' = [kind |-> "list",
                  hotels |-> MapSeq(bookingResult, BookingToHotel) \o agodaHotels]
  /\ UNCHANGED <<request, bookVars, agodaVars, browsers, xVars, scrollVars, normVars, loopVars, navVars>>

BookingNext ==
  \/ BookingStart
  \/ BookingCheckOpen
  \/ BookingCheckRun
  \/ BookingCrawlOpen
  \/ BookingCrawlRun

EnrichNext ==
  \/ \E i \in 1..Len(tpc) : TaskStart(i)
  \/ \E i \in 1..Len(tpc) : TaskCoords(i)
  \/ \E i \in 1..Len(tpc) : TaskReviews(i)
  \/ EnrichJoin

AgodaNext ==
  \/ AgodaValidate
  \/ AgodaLaunch
  \/ AgodaSearch
  \/ AgodaScrape
  \/ AgodaClose

Next ==
  \/ BookingNext
  \/ EnrichNext
  \/ AgodaNext
  \/ GetAgodaHotels
  \/ HandlerFail
  \/ HandlerReturn

\* one search-hotels request
Spec == Init /\ [][Next]_vars

\* a direct call of agoda_scraper
InitAgoda ==
  /\ request \in AgodaCalls
  /\ InitRequest /\ InitBooking /\ InitAgodaTask /\ InitX /\ InitScroll /\ InitNorm /\ InitLoop /\ InitNav
  /\ browsers = {}

SpecAgoda == InitAgoda /\ [][AgodaNext]_vars

\* the enrichment step of ModernBookingScraper.search_hotels on its own
InitEnrich ==
  /\ request = BaseRequest
  /\ InitRequest /\ InitAgodaTask /\ InitX /\ InitScroll /\ InitNorm /\ InitLoop /\ InitNav
  /\ bpc = "enrich"
  /\ include_reviews \in BOOLEAN
  /\ review_limit = ReviewLimit
  /\ session \in {0, 1}
  /\ sessionsCreated = session
  /\ bookingRuns = 2
  /\ raw_data \in SeqsUpTo(RawHotels, MaxBatch)
  /\ tpc = [i \in 1..Len(raw_data) |-> "start"]
  /\ tres = [i \in 1..Len(raw_data) |-> NoHotel]
  /\ tenv = [i \in 1..Len(raw_data) |-> [coords |-> "none", reviews |-> "none"]]
  /\ bookingResult = <<>>
  /\ outOfOrder = FALSE
  /\ browsers = {"booking_extract"}

SpecEnrich == InitEnrich /\ [][EnrichNext]_vars

\* the same step on a scraper that was not entered as a context manager
InitBare == InitEnrich /\ session = 0

SpecBare == InitBare /\ [][EnrichNext]_vars

(* ------------- agodaScrapper: extract_hotel_info, field by field -------- *)

\* the loop over the hotel-name selectors
ExtractNameStep ==
  /\ xpc = "name"
  /\ \E S \in HitSets(NumNameSelectors) : \E h \in [S -> NameTexts] :
       LET cands == Vec(NumNameSelectors, h)
           r == ExtractName(cands)
       IN /\ xcands' = cands
          /\ xtried' = r.tried
          /\ xvals' = [xvals EXCEPT !.field = "name", !.hotel_name = r.val]
  /\ xpc' = "name_gate"
  /\ UNCHANGED xresult
  /\ UNCHANGED <<reqVars, bookVars, agodaVars, browsers, scrollVars, normVars, loopVars, navVars>>

\* an item without a name is skipped
NameGate ==
  /\ xpc = "name_gate"
  /\ xpc' = IF NameMissing(xvals.hotel_name) THEN "done" ELSE "rating"
  /\ xcands' = <<>>
  /\ xtried' = <<>>
  /\ UNCHANGED <<xvals, xresult>>
  /\ UNCHANGED <<reqVars, bookVars, agodaVars, browsers, scrollVars, normVars, loopVars, navVars>>

\* the scan of the item's span elements for the star rating
ExtractRatingStep ==
  /\ xpc = "rating"
  /\ \E spans \in SpanTexts :
       xvals' = [xvals EXCEPT !.field = "rating", !.hotel_rating = RatingOf(spans)]
  /\ xpc' = "price"
  /\ UNCHANGED <<xcands, xtried, xresult>>
  /\ UNCHANGED <<reqVars, bookVars, agodaVars, browsers, scrollVars, normVars, loopVars, navVars>>

\* the loop over the price selectors
ExtractPriceStep ==
  /\ xpc = "price"
  /\ \E S \in HitSets(NumPriceSelectors) : \E h \in [S -> PriceTexts] :
       LET cands == Vec(NumPriceSelectors, h)
           r == ExtractPriceText(cands)
       IN /\ xcands' = cands
          /\ xtried' = r.tried
          /\ xvals' = [xvals EXCEPT !.field = "price", !.price_text = r.val]
  /\ xpc' = "price_gate"
  /\ UNCHANGED xresult
  /\ UNCHANGED <<reqVars, bookVars, agodaVars, browsers, scrollVars, normVars, loopVars, navVars>>

\* the conversion of the price text to a float; an item without a price is skipped
PriceGate ==
  /\ xpc = "price_gate"
  /\ xvals' = [xvals EXCEPT !.hotel_price = PriceOf(xvals.price_text)]
  /\ xpc' = IF PriceOf(xvals.price_text).na THEN "done" ELSE "link"
  /\ xcands' = <<>>
  /\ xtried' = <<>>
  /\ UNCHANGED xresult
  /\ UNCHANGED <<reqVars, bookVars, agodaVars, browsers, scrollVars, normVars, loopVars, navVars>>

\* the loop over the booking-link selectors
ExtractLinkStep ==
  /\ xpc = "link"
  /\ \E S \in HitSets(NumLinkSelectors) : \E h \in [S -> HrefValues] :
       LET cands == Vec(NumLinkSelectors, h)
           r == ExtractAttr(cands)
       IN /\ xcands' = cands
          /\ xtried' = r.tried
          /\ xvals' = [xvals EXCEPT !.field = "link", !.booking_url = r.val]
  /\ xpc' = "image"
  /\ UNCHANGED xresult
  /\ UNCHANGED <<reqVars, bookVars, agodaVars, browsers, scrollVars, normVars, loopVars, navVars>>

\* the loop over the image selectors, then hotel_data is built and returned
ExtractImageStep ==
  /\ xpc = "image"
  /\ \E S \in HitSets(NumImageSelectors) : \E h \in [S -> SrcValues] :
       LET cands == Vec(NumImageSelectors, h)
           r == ExtractAttr(cands)
       IN /\ xcands' = cands
          /\ xtried' = r.tried
          /\ xvals' = [xvals EXCEPT !.field = "image", !.main_image_url = r.val]
          /\ xresult' = BuildHotelData(xvals.hotel_name.s, xvals.hotel_rating,
                                       xvals.hotel_price.cents, xvals.booking_url, r.val)
  /\ xpc' = "done"
  /\ UNCHANGED <<reqVars, bookVars, agodaVars, browsers, scrollVars, normVars, loopVars, navVars>>

ExtractNext ==
  \/ ExtractNameStep
  \/ NameGate
  \/ ExtractRatingStep
  \/ ExtractPriceStep
  \/ PriceGate
  \/ ExtractLinkStep
  \/ ExtractImageStep

\* extract_hotel_info on one result item
InitExtract ==
  /\ request = BaseRequest
  /\ InitRequest /\ InitBooking /\ InitAgodaTask /\ InitScroll /\ InitNorm /\ InitLoop /\ InitNav
  /\ browsers = {"agoda"}
  /\ xpc = "name"
  /\ xcands = <<>>
  /\ xtried = <<>>
  /\ xvals = NoVals
  /\ xresult = NoResult

SpecExtract == InitExtract /\ [][ExtractNext]_vars

(* ------------------- test.py: scroll_and_wait_script ------------------- *)

\* the script without the reset of window.retries when the height has changed
ScrollAndWaitNoReset(w, currentHeight) ==
  LET Poll(started) ==
        IF currentHeight = started.lastHeight
        THEN IF started.retries - 1 <= 0
             THEN [window |-> [started EXCEPT !.retries = started.retries - 1],
                   result |-> TRUE]
             ELSE [window |-> [started EXCEPT !.retries = started.retries - 1,
                                              !.lastHeight = currentHeight],
                   result |-> FALSE]
        ELSE [window |-> [started EXCEPT !.lastHeight = currentHeight],
              result |-> FALSE]
  IN Poll(IF w.defined THEN w
          ELSE [defined |-> TRUE, lastHeight |-> 0, retries |-> StableTicks])

\* one call of scroll_and_wait_script on a page of height currentHeight: the
\* window state after the call and the value returned
scroll_and_wait_script(w, currentHeight) ==
  LET Poll(started) ==
        IF currentHeight = started.lastHeight
        THEN IF started.retries - 1 <= 0
             THEN [window |-> [started EXCEPT !.retries = started.retries - 1],
                   result |-> TRUE]
             ELSE [window |-> [started EXCEPT !.retries = started.retries - 1,
                                              !.lastHeight = currentHeight],
                   result |-> FALSE]
        ELSE [window |-> [started EXCEPT !.retries = StableTicks,
                                         !.lastHeight = currentHeight],
              result |-> FALSE]
  IN Poll(IF w.defined THEN w
          ELSE [defined |-> TRUE, lastHeight |-> 0, retries |-> StableTicks])

\* the crawler polls the script once more; it stops polling at the first true
PollTick ==
  /\ Len(heights) < MaxTicks
  /\ \A t \in DOMAIN polls : ~polls[t]
  /\ \E currentHeight \in 0..MaxHeight :
       LET Step(r) ==
             /\ window' = r.window
             /\ heights' = Append(heights, currentHeight)
             /\ polls' = Append(polls, r.result)
       IN Step(scroll_and_wait_script(window, currentHeight))
  /\ UNCHANGED <<reqVars, bookVars, agodaVars, browsers, xVars, normVars, loopVars, navVars>>

\* the page of test.py's main(), polled until the script answers true
InitPoll ==
  /\ request = BaseRequest
  /\ InitRequest /\ InitBooking /\ InitAgodaTask /\ InitX /\ InitScroll /\ InitNorm /\ InitLoop /\ InitNav
  /\ browsers = {"test"}

SpecScroll == InitPoll /\ [][PollTick]_vars

(* --------------------- the normalizers, one call each ------------------- *)

\* first maximal run of characters of cs in s, as a one-element sequence, or <<>>
FirstRun(s, cs) ==
  LET First(starts) ==
        IF starts = {} THEN <<>>
        ELSE <<RunFrom(s, CHOOSE i \in starts : \A j \in starts : i <= j, cs)>>
  IN First({i \in 1..Len(s) : s[i] \in cs})

\* test.py clean_rating(raw_rating): ok = FALSE when float() raises ValueError
test_clean_rating(raw_rating) ==
  LET Result(sm, f, reviews) ==
        IF sm = <<>> THEN [ok |-> TRUE, score |-> NoneNum, reviews |-> reviews]
        ELSE IF f.ok THEN [ok |-> TRUE, score |-> Num(f.cents), reviews |-> reviews]
        ELSE [ok |-> FALSE, score |-> NoneNum, reviews |-> NoneNum]
      Reviews(rm) ==
        IF rm = <<>> THEN NoneNum ELSE Num(ParseNat(SelectSeq(rm[1], LAMBDA c : c # ",")))
      Score(sm) ==
        Result(sm, FloatOf(IF sm = <<>> THEN <<>> ELSE sm[1]),
               Reviews(ReviewsMatch(raw_rating.s)))
  IN IF ~Truthy(raw_rating) THEN [ok |-> TRUE, score |-> NoneNum, reviews |-> NoneNum]
     ELSE Score(FirstRun(raw_rating.s, Digits \cup {"."}))

\* test.py extract_star_count(stars_html)
test_extract_star_count(stars_html) ==
  IF ~Truthy(stars_html) THEN 0 ELSE CountOcc(stars_html.s, <<"<","s","p","a","n">>)

\* the normalizers of the three modules
Normalizers ==
  { "booking.clean_rating", "test.clean_rating", "booking.extract_star_count",
    "test.extract_star_count", "booking.extract_coordinates", "booking.url",
    "test.url", "agoda.booking_url", "agoda.image_url", "agoda.hotel_price" }

\* the raw field each normalizer is given
FieldOf(fn) ==
  CASE fn \in {"booking.clean_rating", "test.clean_rating"} -> "rating"
    [] fn \in {"booking.extract_star_count", "test.extract_star_count"} -> "stars"
    [] fn = "booking.extract_coordinates" -> "coordinates"
    [] fn = "agoda.hotel_price" -> "price"
    [] OTHER -> "url"

\* one call of a normalizer on a raw value (None or a string): whether it raised
\* and, when it did not, the value it returned
Apply(fn, raw) ==
  LET Rating(r) ==
        [raised |-> ~r.ok, value |-> [score |-> r.score, reviews |-> r.reviews]]
      Price(price) == [raised |-> FALSE, value |-> price]
      Url(r, field) ==
        [raised |-> ~r.ok, value |-> IF field = "booking_url" THEN r.data.booking_url
                                     ELSE r.data.image_url]
  IN CASE fn = "booking.clean_rating" ->
            IF raw.none THEN [raised |-> TRUE, value |-> [score |-> NoneNum, reviews |-> NoneNum]]
            ELSE Rating(clean_rating(raw.s))
       [] fn = "test.clean_rating" -> Rating(test_clean_rating(raw))
       [] fn = "booking.extract_star_count" ->
            [raised |-> FALSE, value |-> extract_star_count(GetOr(raw, <<>>))]
       [] fn = "test.extract_star_count" ->
            [raised |-> FALSE, value |-> Num(test_extract_star_count(raw))]
       [] fn = "booking.extract_coordinates" ->
            [raised |-> FALSE, value |-> extract_coordinates(GetOr(raw, <<>>))]
       [] fn = "booking.url" ->
            [raised |-> FALSE, value |-> Str(UrlJoin(BookingBase, GetOr(raw, <<>>)))]
       [] fn = "test.url" ->
            [raised |-> FALSE,
             value |-> IF Truthy(raw) THEN Str(UrlJoin(BookingBase, raw.s)) ELSE NoneStr]
       [] fn = "agoda.booking_url" ->
            Url(BuildHotelData(<<"A">>, NA, 0, raw, Str(NA)), "booking_url")
       [] fn = "agoda.image_url" ->
            Url(BuildHotelData(<<"A">>, NA, 0, Str(NA), raw), "image_url")
       [] fn = "agoda.hotel_price" ->
            Price(PriceOf(raw))

\* a normalizer is called on the raw value
Normalize(fn) ==
  /\ nfn = "none"
  /\ FieldOf(fn) = nfield
  /\ nfn' = fn
  /\ nout' = Apply(fn, nin)
  /\ UNCHANGED <<nfield, nin>>
  /\ UNCHANGED <<reqVars, bookVars, agodaVars, browsers, xVars, scrollVars, loopVars, navVars>>

NormalizeNext == \E fn \in Normalizers : Normalize(fn)

\* a raw value of one field, as scraped
InitNormalize ==
  /\ request = BaseRequest
  /\ InitRequest /\ InitBooking /\ InitAgodaTask /\ InitX /\ InitScroll /\ InitLoop /\ InitNav
  /\ browsers = {}
  /\ nfield \in {"rating", "stars", "coordinates", "url", "price"}
  /\ nin \in RawValues(nfield)
  /\ nfn = "none"
  /\ nout = NoOut

SpecNormalize == InitNormalize /\ [][NormalizeNext]_vars


\* ---------------------------------------------------------------------------
\* The scroll loops that wait for lazily loaded content: the loop of
\* scrape_first_page_results (Agoda) and the loop of BookingScraper.get_reviews.
\* Heights are in pixels; what the page measures after a scroll is the
\* environment's choice.

MaxLoopTicks == 6

MinScroll == 200

ScrollPercentLow == 15

ScrollPercentHigh == 25

\* document.body.scrollHeight when the loop starts
PageHeights == {0, 300, 600}

\* by how much the page has grown when it is measured again
Growths == {0, 200, 300}

\* scroll_amount = max(int(remaining_height * scroll_percentage), 200)
ScrollAmount(remaining_height, percent) ==
  IF (remaining_height * percent) \div 100 > MinScroll
  THEN (remaining_height * percent) \div 100
  ELSE MinScroll

\* last_height = await page.evaluate("document.body.scrollHeight"); current_position = 0
AgodaScrollStart ==
  /\ lkind = "none"
  /\ \E h \in PageHeights :
       /\ last_height' = h
       /\ lpc' = IF 0 < h THEN "loop" ELSE "done"
  /\ lkind' = "agoda"
  /\ current_position' = 0
  /\ lticks' = 0
  /\ UNCHANGED <<reqVars, bookVars, agodaVars, browsers, xVars, scrollVars, normVars, navVars>>

\* one iteration of `while current_position < last_height`, and the test that follows it
AgodaScrollTick ==
  /\ lkind = "agoda" /\ lpc = "loop"
  /\ lticks < MaxLoopTicks
  /\ \E percent \in {ScrollPercentLow, ScrollPercentHigh}, g \in Growths :
       LET Body(position, new_height) ==
             /\ current_position' = position
             /\ last_height' = IF new_height > last_height THEN new_height ELSE last_height
             /\ lpc' = IF position < (IF new_height > last_height THEN new_height ELSE last_height)
                       THEN "loop" ELSE "done"
       IN Body(current_position + ScrollAmount(last_height - current_position, percent),
               last_height + g)
  /\ lticks' = lticks + 1
  /\ UNCHANGED lkind
  /\ UNCHANGED <<reqVars, bookVars, agodaVars, browsers, xVars, scrollVars, normVars, navVars>>

\* last_height = self.driver.execute_script("return document.body.scrollHeight")
ReviewScrollStart ==
  /\ lkind = "none"
  /\ \E h \in PageHeights : last_height' = h
  /\ lkind' = "reviews"
  /\ lpc' = "loop"
  /\ lticks' = 0
  /\ UNCHANGED current_position
  /\ UNCHANGED <<reqVars, bookVars, agodaVars, browsers, xVars, scrollVars, normVars, navVars>>

\* one iteration of `while True`: scroll to the bottom, sleep, measure, compare
ReviewScrollTick ==
  /\ lkind = "reviews" /\ lpc = "loop"
  /\ lticks < MaxLoopTicks
  /\ \E g \in Growths :
       LET Body(new_height) ==
             /\ lpc' = IF new_height = last_height THEN "done" ELSE "loop"
             /\ last_height' = new_height
       IN Body(last_height + g)
  /\ lticks' = lticks + 1
  /\ UNCHANGED <<lkind, current_position>>
  /\ UNCHANGED <<reqVars, bookVars, agodaVars, browsers, xVars, scrollVars, normVars, navVars>>

\* a page call of the loop raises: get_reviews returns [] from its except clause,
\* scrape_first_page_results lets the exception out
ScrollRaises ==
  /\ lpc = "loop"
  /\ lticks < MaxLoopTicks
  /\ lpc' = "raised"
  /\ UNCHANGED <<lkind, lticks, current_position, last_height>>
  /\ UNCHANGED <<reqVars, bookVars, agodaVars, browsers, xVars, scrollVars, normVars, navVars>>

LoopsNext ==
  \/ AgodaScrollStart
  \/ AgodaScrollTick
  \/ ReviewScrollStart
  \/ ReviewScrollTick
  \/ ScrollRaises

InitLoops ==
  /\ request = BaseRequest
  /\ InitRequest /\ InitBooking /\ InitAgodaTask /\ InitX /\ InitScroll /\ InitNorm /\ InitLoop /\ InitNav
  /\ browsers = {"page"}

SpecLoops == InitLoops /\ [][LoopsNext]_vars


\* ---------------------------------------------------------------------------
\* search_agoda_homepage, the navigator, and the two lines of agoda_scraper
\* around it. An address is its path and its query parameters in order; the
\* address the site serves after a click or a page.goto is the site's choice.

MaxAdults == 4

Param(name, value) == [name |-> name, value |-> value]

Url(path, params) == [path |-> path, params |-> params]

HomeUrl == Url("/", <<>>)

\* page.url after the SEARCH click
ResultUrls ==
  { Url("/search", <<>>),
    Url("/search", <<Param("city", "17")>>),
    Url("/search", <<Param("city", "17"), Param("hotelAccom", "34")>>),
    Url("/search", <<Param("city", "17"), Param("hotelStarRating", "3")>>) }

ActivityUrls ==
  { Url("/activities/search", <<Param("cityId", "17")>>),
    Url("/activities/search", <<Param("cityId", "")>>),
    Url("/activities/search", <<>>) }

SearchUrls == ResultUrls \cup ActivityUrls

\* "/activities/" in current_url
IsActivities(url) == url.path = "/activities/search"

\* re.search(r'cityId=(\d+)', current_url)
city_id_match(url) ==
  IF \E i \in DOMAIN url.params : url.params[i].name = "cityId" /\ url.params[i].value # ""
  THEN Str(url.params[CHOOSE i \in DOMAIN url.params :
                        url.params[i].name = "cityId" /\ url.params[i].value # ""].value)
  ELSE NoneStr

\* "hotelAccom=34" in current_url, "hotelStarRating" in current_url
HasAccom(url) ==
  \E i \in DOMAIN url.params : url.params[i].name = "hotelAccom" /\ url.params[i].value = "34"

HasStarParam(url) == \E i \in DOMAIN url.params : url.params[i].name = "hotelStarRating"

\* new_url = current_url + "&name=value", or + "?name=value" for the first parameter
WithParam(url, name, value) == Url(url.path, Append(url.params, Param(name, value)))

\* hotels_url of the deep link
HotelsUrl(city_id, args) ==
  Url("/search", <<Param("city", city_id), Param("checkIn", args.check_in_date),
                   Param("checkOut", args.check_out_date), Param("rooms", "1"),
                   Param("adults", DigitChars[args.adults + 1]), Param("cid", "1908612")>>)

\* page.url after page.goto(url): the address asked for, or the address without
\* the last parameter when the site does not keep it
PageUrlAfter(url) ==
  IF url.params = <<>> THEN {url}
  ELSE {url, Url(url.path, SubSeq(url.params, 1, Len(url.params) - 1))}

NavCalls ==
  [location : {<<"K", "L">>}, check_in_date : {"2025-06-07"}, check_out_date : {"2025-06-08"},
   adults : 1..MaxAdults, star_rating : {0, 3, 5}]

\* which recovery the navigator takes on the address the search led to
\* (hotels_tab_found: a selector of the tab loop was visible and its click and
\* the wait after it did not raise)
RecoveryBranchTabOnly(url, hotels_tab_found) ==
  IF ~IsActivities(url) THEN "none"
  ELSE IF hotels_tab_found THEN "hotels_tab"
  ELSE "restart"

RecoveryBranch(url, hotels_tab_found) ==
  IF ~IsActivities(url) THEN "none"
  ELSE IF ~city_id_match(url).none THEN "deep_link"
  ELSE IF hotels_tab_found THEN "hotels_tab"
  ELSE "restart"

\* the page actions of the tab loop: an earlier selector may be visible and its
\* click or wait raise, which the loop's except clause turns into `continue`
TabLoopSteps(raised, hotels_tab_found) ==
  <<"tab_lookup">> \o (IF raised THEN <<"hotels_tab_raised">> ELSE <<>>)
                  \o (IF hotels_tab_found THEN <<"hotels_tab">> ELSE <<>>)

\* the steps that fill the search form
FillSteps == <<"type_location", "dismiss", "check_in_box", "check_in_date", "check_out_date", "dismiss">>

RestartSteps == <<"goto_home", "clear_location", "type_hotels_in", "dismiss",
                  "check_in_box", "check_in_date", "check_out_date", "dismiss">>

Repeat(x, n) == [i \in 1..n |-> x]

PlusClicks(plusVisible) == Cardinality({i \in DOMAIN plusVisible : plusVisible[i]})

\* the block `if adults != 2`: one click on minus when it is visible, then for
\* each of adults - 1 rounds one click on plus when it is visible
AdjustAdults(control, adults, minusVisible, plusVisible) ==
  LET Result(down, up) ==
        [control |-> (IF down = 1 /\ control > 1 THEN control - 1 ELSE control) + up,
         clicks |-> down + up,
         steps |-> <<"occupancy_box">> \o Repeat("adults_minus", down)
                   \o Repeat("adults_plus", up) \o <<"dismiss">>]
  IN Result(IF minusVisible THEN 1 ELSE 0, PlusClicks(plusVisible))

\* lines 84-111: location, dismissal of the suggestions, the two dates
NavFill ==
  /\ npc = "fill"
  /\ \E ok \in BOOLEAN :
       IF ok
       THEN nsteps' = nsteps \o FillSteps /\ npc' = "adults"
       ELSE nsteps' = nsteps \o <<"type_location", "timeout">> /\ npc' = "raised"
  /\ UNCHANGED <<nargs, current_url, ncontrol, nclicks, nrequested>>
  /\ UNCHANGED <<reqVars, bookVars, agodaVars, browsers, xVars, scrollVars, normVars, loopVars>>

\* lines 114-141: the party size, inside its own try/except Exception
NavAdults ==
  /\ npc = "adults"
  /\ IF nargs.adults = 2
     THEN UNCHANGED <<nsteps, ncontrol, nclicks>>
     ELSE \E opens, minusVisible \in BOOLEAN, plusVisible \in [1..(nargs.adults - 1) -> BOOLEAN] :
            IF opens
            THEN LET Set(r) ==
                       /\ ncontrol' = r.control
                       /\ nclicks' = nclicks + r.clicks
                       /\ nsteps' = nsteps \o r.steps
                 IN Set(AdjustAdults(ncontrol, nargs.adults, minusVisible, plusVisible))
            ELSE nsteps' = Append(nsteps, "occupancy_box") /\ UNCHANGED <<ncontrol, nclicks>>
  /\ npc' = "search"
  /\ UNCHANGED <<nargs, current_url, nrequested>>
  /\ UNCHANGED <<reqVars, bookVars, agodaVars, browsers, xVars, scrollVars, normVars, loopVars>>

\* lines 143-156: the SEARCH click and the wait for the page
NavSearch ==
  /\ npc = "search"
  /\ \E ok \in BOOLEAN :
       IF ok
       THEN /\ nsteps' = Append(nsteps, "search")
            /\ \E u \in SearchUrls : current_url' = u
            /\ npc' = "redirect"
       ELSE /\ nsteps' = nsteps \o <<"search", "timeout">>
            /\ npc' = "raised"
            /\ UNCHANGED current_url
  /\ UNCHANGED <<nargs, ncontrol, nclicks, nrequested>>
  /\ UNCHANGED <<reqVars, bookVars, agodaVars, browsers, xVars, scrollVars, normVars, loopVars>>

\* lines 158-198: the activities page and the branch taken from it
NavRedirect ==
  /\ npc = "redirect"
  /\ \E hotels_tab_found, raised, ok \in BOOLEAN :
       LET Take(branch) ==
             CASE branch = "none" ->
                    /\ npc' = "accom"
                    /\ UNCHANGED <<nsteps, current_url, nrequested>>
               [] branch = "deep_link" ->
                    /\ nrequested' = Append(nrequested, HotelsUrl(city_id_match(current_url).s, nargs))
                    /\ IF ok
                       THEN /\ nsteps' = Append(nsteps, "deep_link")
                            /\ \E u \in PageUrlAfter(HotelsUrl(city_id_match(current_url).s, nargs)) :
                                 current_url' = u
                            /\ npc' = "accom"
                       ELSE /\ nsteps' = nsteps \o <<"deep_link", "timeout">>
                            /\ npc' = "raised"
                            /\ UNCHANGED current_url
               [] branch = "hotels_tab" ->
                    /\ nsteps' = nsteps \o TabLoopSteps(raised, TRUE)
                    /\ \E u \in SearchUrls : current_url' = u
                    /\ npc' = "accom"
                    /\ UNCHANGED nrequested
               [] branch = "restart" ->
                    /\ nsteps' = nsteps \o TabLoopSteps(raised, FALSE)
                    /\ npc' = "restart"
                    /\ UNCHANGED <<current_url, nrequested>>
       IN Take(RecoveryBranch(current_url, hotels_tab_found))
  /\ UNCHANGED <<nargs, ncontrol, nclicks>>
  /\ UNCHANGED <<reqVars, bookVars, agodaVars, browsers, xVars, scrollVars, normVars, loopVars>>

\* lines 198-222: back to the homepage, "Hotels in <location>", the two dates
NavRestartFill ==
  /\ npc = "restart"
  /\ nrequested' = Append(nrequested, HomeUrl)
  /\ \E ok \in BOOLEAN :
       IF ok
       THEN /\ nsteps' = nsteps \o RestartSteps
            /\ \E c \in {2, ncontrol} : ncontrol' = c
            /\ npc' = "restart_search"
       ELSE /\ nsteps' = nsteps \o <<"goto_home", "timeout">>
            /\ npc' = "raised"
            /\ UNCHANGED ncontrol
  /\ UNCHANGED <<nargs, current_url, nclicks>>
  /\ UNCHANGED <<reqVars, bookVars, agodaVars, browsers, xVars, scrollVars, normVars, loopVars>>

\* lines 225-229: the second SEARCH click
NavRestartSearch ==
  /\ npc = "restart_search"
  /\ \E ok \in BOOLEAN :
       IF ok
       THEN /\ nsteps' = Append(nsteps, "search")
            /\ \E u \in SearchUrls : current_url' = u
            /\ npc' = "accom"
       ELSE /\ nsteps' = nsteps \o <<"search", "timeout">>
            /\ npc' = "raised"
            /\ UNCHANGED current_url
  /\ UNCHANGED <<nargs, ncontrol, nclicks, nrequested>>
  /\ UNCHANGED <<reqVars, bookVars, agodaVars, browsers, xVars, scrollVars, normVars, loopVars>>

\* a page.goto(new_url) of the two parameter blocks, and page.url after it
Reload(step, new_url, next) ==
  /\ nrequested' = Append(nrequested, new_url)
  /\ \E ok \in BOOLEAN :
       IF ok
       THEN /\ nsteps' = Append(nsteps, step)
            /\ \E u \in PageUrlAfter(new_url) : current_url' = u
            /\ npc' = next
       ELSE /\ nsteps' = nsteps \o <<step, "timeout">>
            /\ npc' = "raised"
            /\ UNCHANGED current_url

\* lines 232-247: hotelAccom=34
NavAccom ==
  /\ npc = "accom"
  /\ IF ~HasAccom(current_url)
     THEN Reload("reload_accom", WithParam(current_url, "hotelAccom", "34"), "star")
     ELSE npc' = "star" /\ UNCHANGED <<nsteps, current_url, nrequested>>
  /\ UNCHANGED <<nargs, ncontrol, nclicks>>
  /\ UNCHANGED <<reqVars, bookVars, agodaVars, browsers, xVars, scrollVars, normVars, loopVars>>

\* lines 250-261: hotelStarRating
NavStar ==
  /\ npc = "star"
  /\ IF nargs.star_rating # 0 /\ ~HasStarParam(current_url)
     THEN Reload("reload_star",
                 WithParam(current_url, "hotelStarRating", DigitChars[nargs.star_rating + 1]),
                 "currency")
     ELSE npc' = "currency" /\ UNCHANGED <<nsteps, current_url, nrequested>>
  /\ UNCHANGED <<nargs, ncontrol, nclicks>>
  /\ UNCHANGED <<reqVars, bookVars, agodaVars, browsers, xVars, scrollVars, normVars, loopVars>>

\* lines 264-277: the currency menu, inside its own try/except Exception
NavCurrency ==
  /\ npc = "currency"
  /\ \E ok \in BOOLEAN :
       nsteps' = IF ok THEN nsteps \o <<"currency_menu", "currency_item">>
                 ELSE Append(nsteps, "currency_menu")
  /\ npc' = "returned"
  /\ UNCHANGED <<nargs, current_url, ncontrol, nclicks, nrequested>>
  /\ UNCHANGED <<reqVars, bookVars, agodaVars, browsers, xVars, scrollVars, normVars, loopVars>>

\* agoda_scraper line 638: scrape_first_page_results on the current page
NavExtract ==
  /\ npc = "returned"
  /\ npc' = "extracted"
  /\ UNCHANGED <<nargs, current_url, nsteps, ncontrol, nclicks, nrequested>>
  /\ UNCHANGED <<reqVars, bookVars, agodaVars, browsers, xVars, scrollVars, normVars, loopVars>>

\* lines 278-280 and agoda_scraper 642-645: the navigator re-raises, the caller's
\* except clause is entered and line 638 is never run
NavExcept ==
  /\ npc = "raised"
  /\ npc' = "skipped"
  /\ UNCHANGED <<nargs, current_url, nsteps, ncontrol, nclicks, nrequested>>
  /\ UNCHANGED <<reqVars, bookVars, agodaVars, browsers, xVars, scrollVars, normVars, loopVars>>

NavNext ==
  \/ NavFill
  \/ NavAdults
  \/ NavSearch
  \/ NavRedirect
  \/ NavRestartFill
  \/ NavRestartSearch
  \/ NavAccom
  \/ NavStar
  \/ NavCurrency
  \/ NavExtract
  \/ NavExcept

\* the page of visit_agoda_homepage, the search form at its defaults
InitNavigator ==
  /\ request = BaseRequest
  /\ InitRequest /\ InitBooking /\ InitAgodaTask /\ InitX /\ InitScroll /\ InitNorm /\ InitLoop
  /\ browsers = {"agoda"}
  /\ npc = "fill"
  /\ nargs \in NavCalls
  /\ current_url = HomeUrl
  /\ nsteps = <<>>
  /\ ncontrol = 2
  /\ nclicks = 0
  /\ nrequested = <<>>

SpecNav == InitNavigator /\ [][NavNext]_vars

(* ------------------------------ properties ------------------------------ *)

\* the string is written as YYYY-MM-DD: four digits, '-', two digits, '-', two digits
IsoForm(s) ==
  /\ Len(s) = 10
  /\ \A i \in 1..10 : IF i \in {5, 8} THEN s[i] = "-" ELSE s[i] \in Digits

\* the digits of a YYYY-MM-DD string as one number; it orders such strings by date
IsoNum(s) ==
  ParseNat(SubSeq(s, 1, 4)) * 10000 + ParseNat(SubSeq(s, 6, 7)) * 100
    + ParseNat(SubSeq(s, 9, 10))

\* a date is not written as YYYY-MM-DD, or check-out is not after check-in
BadDates(check_in, check_out) ==
  \/ ~IsoForm(check_in)
  \/ ~IsoForm(check_out)
  \/ IsoForm(check_in) /\ IsoForm(check_out) /\ IsoNum(check_out) <= IsoNum(check_in)

\* the request does not pass the argument checks of agoda_scraper
FailsValidation ==
  AgodaValidation(request.location, request.check_in, request.check_out,
                  request.adults) # "ok"

\* C1: a call of agoda_scraper with a blank location, a date that is not
\* YYYY-MM-DD, adults outside 1..10 or check_out <= check_in raises a validation
\* error without any browser launch or navigation before it; and whenever a
\* navigation happens, check_out is after check_in and adults is in 1..10.
C1_InvalidCallNeverNavigates ==
  /\ ( \/ Strip(request.location) = <<>>
       \/ BadDates(request.check_in, request.check_out)
       \/ request.adults \notin 1..10 )
     => /\ ~agodaLaunched
        /\ ~agodaNavigated
        /\ apc # "init" => agodaOutcome = "ValueError"
  /\ agodaNavigated
     => /\ request.adults \in 1..10
        /\ Strptime(request.check_in).ok /\ Strptime(request.check_out).ok
        /\ ~DateLeq(Strptime(request.check_out), Strptime(request.check_in))

\* C2: a search-hotels request whose check_in or check_out is not exactly
\* YYYY-MM-DD, or whose check_out is not after check_in, causes no Booking
\* crawler run and no Agoda navigation.
C2_BadDatesNeverNavigate ==
  BadDates(request.check_in, request.check_out) => bookingRuns = 0 /\ ~agodaNavigated

\* C3: when the request fails input validation, the caller of search-hotels
\* receives that validation error, never a list and never a generic failure.
C3_ValidationErrorReachesCaller ==
  (hpc # "gather" /\ FailsValidation) => response.kind = "ValueError"

\* C4: for a request that passes validation the handler answers with a list;
\* no failure inside either source reaches the caller as an error.
C4_ValidRequestAnswersList ==
  (hpc # "gather" /\ ~FailsValidation) => response.kind = "list"

\* C5: when the handler ends after one source has gathered records, also when
\* the other source failed fatally, the answer is a list holding those records.
C5_GatheredRecordsReturned ==
  [][ (hpc = "gather" /\ hpc' # "gather" /\ apc = "done" /\ agodaHotels # <<>>)
      => /\ response'.kind = "list"
         /\ \A i \in 1..Len(agodaHotels) :
              \E j \in 1..Len(response'.hotels) : response'.hotels[j] = agodaHotels[i] ]_vars

\* C6: every record of a returned list, from either source, has a price.
C6_EveryRecordHasPrice ==
  response.kind = "list"
    => \A i \in 1..Len(response.hotels) : ~response.hotels[i].price.none

\* the URL is present and starts with http:// or https://
AbsoluteUrl(u) ==
  /\ ~u.none
  /\ \/ StartsWith(u.s, <<"h","t","t","p",":","/","/">>)
     \/ StartsWith(u.s, <<"h","t","t","p","s",":","/","/">>)

\* C7: every record of a returned list has an absolute http(s) booking URL.
C7_EveryRecordHasAbsoluteUrl ==
  response.kind = "list"
    => \A i \in 1..Len(response.hotels) : AbsoluteUrl(response.hotels[i].url)

\* the fields extracted through an ordered list of candidate selectors
CandidateFields == {"name", "price", "link", "image"}

\* the content a candidate yields: the trimmed text of a name element, the text
\* of a price element, the attribute value of a link or image element
ContentOf(field, c) == IF field = "name" THEN Str(Strip(c.val.s)) ELSE c.val

\* the candidate yields non-empty content: an element was found and its text is
\* non-empty after trimming, or its attribute is non-empty
YieldsContent(field, c) ==
  /\ c.found
  /\ ~c.val.none
  /\ IF field \in {"name", "price"} THEN Strip(c.val.s) # <<>> ELSE c.val.s # <<>>

\* as YieldsContent, but a price element whose text is "N/A" yields nothing
YieldsUsable(field, c) ==
  YieldsContent(field, c) /\ (field = "price" => c.val.s # NA)

\* the value the loop of the field last extracted has left
ExtractedValue ==
  CASE xvals.field = "name" -> xvals.hotel_name
    [] xvals.field = "price" -> xvals.price_text
    [] xvals.field = "link" -> xvals.booking_url
    [] xvals.field = "image" -> xvals.main_image_url

\* a selector loop has just run and its candidates are still at hand
LoopJustRan == xvals.field \in CandidateFields /\ xcands # <<>>

FetchFailed(i) == tenv[i].coords = "failed" \/ tenv[i].reviews = "failed"

\* C9: when one record's detail-page fetch fails, the output of the enrichment
\* still holds all M records, in order, and the coordinates and reviews of the
\* failing record are absent.
C9_FetchFailureKeepsBatch ==
  (bpc = "done" /\ Cardinality({i \in 1..Len(raw_data) : FetchFailed(i)}) = 1)
    => /\ Len(bookingResult) = Len(raw_data)
       /\ \A i \in 1..Len(raw_data) :
            /\ bookingResult[i].name = raw_data[i].name
            /\ tenv[i].coords = "failed" => bookingResult[i].coordinates.none
            /\ tenv[i].reviews = "failed" => bookingResult[i].reviews = <<>>

\* C10: the output of every enrichment batch has as many records as its input;
\* a record whose processing failed is in the output with absent coordinates
\* and reviews.
C10_OutputCountEqualsInput ==
  bpc = "done"
    => /\ Len(bookingResult) = Len(raw_data)
       /\ \A i \in 1..Len(raw_data) :
            tpc[i] = "raised"
              => bookingResult[i].coordinates.none /\ bookingResult[i].reviews = <<>>

\* an order-preserving assignment of the output records to the input items whose
\* task returned a record
KeepsOrder(f) ==
  /\ \A k \in DOMAIN f : tpc[f[k]] = "done" /\ bookingResult[k].name = raw_data[f[k]].name
  /\ \A k, l \in DOMAIN f : k < l => f[k] < f[l]
  /\ \A i \in 1..Len(raw_data) : tpc[i] = "done" => \E k \in DOMAIN f : f[k] = i

\* C11: whatever the order in which the concurrent per-record fetches complete,
\* the records of the enrichment output appear in the same relative order as the
\* input items they were made from.
C11_OutputKeepsInputOrder ==
  bpc = "done" /\ raw_data # <<>>
    => \E f \in [1..Len(bookingResult) -> 1..Len(raw_data)] : KeepsOrder(f)

\* two different records are returned although a later task finished first
C11_Witness ==
  /\ bpc = "done"
  /\ outOfOrder
  /\ Len(bookingResult) >= 2
  /\ bookingResult[1].name # bookingResult[2].name

\* positions of the output records that have coordinates
WithCoords == {i \in DOMAIN bookingResult : ~bookingResult[i].coordinates.none}

\* C12: after enrichment the reference point is the coordinates of the first output
\* record that has coordinates; a record carries a distance exactly when it has
\* coordinates (and then a reference point exists), measured from the reference
\* point; the reference record's own distance is 0; when no record has
\* coordinates no record has a distance.
C12_DistanceFromFirstWithCoords ==
  bpc = "done" /\ bookingResult # <<>>
    => /\ \A i \in DOMAIN bookingResult :
            ~bookingResult[i].distance_from_center.none <=> i \in WithCoords
       /\ \A r \in WithCoords :
            (\A j \in WithCoords : r <= j)
              => /\ bookingResult[r].distance_from_center = Num(0)
                 /\ \A i \in WithCoords :
                      bookingResult[i].distance_from_center
                        = calculate_distance(bookingResult[r].coordinates,
                                             bookingResult[i].coordinates)

\* two records with different coordinates: the second is measured from the first
C12_Witness ==
  /\ bpc = "done"
  /\ Len(bookingResult) >= 2
  /\ WithCoords = {1, 2}
  /\ bookingResult[1].coordinates # bookingResult[2].coordinates
  /\ bookingResult[1].distance_from_center = Num(0)
  /\ bookingResult[2].distance_from_center = Num(1571)

\* the heights rise strictly up to measurement k >= 2 and stay the same from there on
IncreasesThenConstant(h) ==
  \E k \in 2..Len(h) :
    /\ \A j \in 1..(k - 1) : h[j] < h[j + 1]
    /\ \A j \in k..Len(h) : h[j] = h[k]

\* at tick t the last n measurements are each equal to the measurement before
UnchangedRun(h, t, n) ==
  /\ t > n
  /\ \A j \in (t - n + 1)..t : h[j] = h[j - 1]

\* C13: for heights that increase and then stay constant, the poll function
\* reports completion for the first time on the tick at which the run of
\* consecutive unchanged measurements reaches 5, and on no earlier tick.
C13_CompletionAtFifthUnchanged ==
  IncreasesThenConstant(heights)
    => \A t \in 1..Len(polls) : polls[t] <=> UnchangedRun(heights, t, StableTicks)

\* heights 1, 2, 2, 2, 2, 2, 2: completion is reported at the seventh poll
C13_Witness ==
  /\ IncreasesThenConstant(heights)
  /\ Len(heights) = StableTicks + 2
  /\ polls[Len(polls)]
  /\ \A t \in 1..(Len(polls) - 1) : ~polls[t]

\* C14: every normalizer (price text, rating text, star markup, coordinate string,
\* URL) returns a typed value or the absent value for every raw input, None and
\* malformed numeric text included; none of them raises.
C14_NormalizersNeverRaise ==
  nfn # "none" => ~nout.raised

\* the first decimal number in s (digits, optionally a point and more digits), in
\* hundredths; NoneNum when s holds no digit
FirstDecimal(s) ==
  LET Value(ip, rest) ==
        IF Len(rest) >= 2 /\ rest[1] = "." /\ rest[2] \in Digits
        THEN Num(FloatOf(ip \o <<".">> \o RunFrom(rest, 2, Digits)).cents)
        ELSE Num(100 * ParseNat(ip))
      From(i, ip) == Value(ip, SubSeq(s, i + Len(ip), Len(s)))
      First(starts) ==
        IF starts = {} THEN NoneNum
        ELSE LET Pick(i) == From(i, RunFrom(s, i, Digits))
             IN Pick(CHOOSE i \in starts : \A j \in starts : i <= j)
  IN First({i \in 1..Len(s) : s[i] \in Digits})

\* the integer immediately before the word 'reviews' in s; NoneNum when there is none
IntBeforeReviews(s) ==
  LET Value(rm) ==
        IF rm = <<>> THEN NoneNum ELSE Num(ParseNat(SelectSeq(rm[1], LAMBDA c : c # ",")))
  IN Value(ReviewsMatch(s))

\* C15: for every rating text, both rating normalizers give as score the first
\* decimal number of the text (absent only when it holds no number) and as review
\* count the integer immediately before 'reviews' (absent only when there is
\* none); each sub-field is decided by the text alone, whatever the other one is.
C15_ScoreAndReviewsFromText ==
  nfn \in {"booking.clean_rating", "test.clean_rating"} /\ ~nin.none
    => /\ ~nout.raised
       /\ nout.value.score = FirstDecimal(nin.s)
       /\ nout.value.reviews = IntBeforeReviews(nin.s)

\* C16: for every star markup, both star-count implementations give the number of
\* marker elements divided by 2 (integer division), and absent or 0 when the
\* markup has no marker.
C16_StarsAreHalfTheMarkers ==
  nfn \in {"booking.extract_star_count", "test.extract_star_count"} /\ ~nin.none
    => LET Expect(markers) ==
             IF markers = 0 THEN nout.value \in {NoneNum, Num(0)}
             ELSE nout.value = Num(markers \div 2)
       IN ~nout.raised /\ Expect(CountOcc(nin.s, <<"<","s","p","a","n">>))

\* the base URL of the source a URL normalizer belongs to
BaseOf(fn) == IF fn = "booking.url" THEN BookingBase ELSE AgodaBase

\* the three shapes of raw URL the rule speaks of
UrlShape(u) ==
  IF StartsWith(u, <<"/","/">>) THEN "scheme_relative"
  ELSE IF StartsWith(u, <<"/">>) THEN "root_relative"
  ELSE IF StartsWith(u, <<"h","t","t","p",":","/","/">>)
          \/ StartsWith(u, <<"h","t","t","p","s",":","/","/">>) THEN "absolute"
  ELSE "other"

\* C17: for every raw URL of a booking link or image, a scheme-relative value
\* ('//...') becomes 'https:' followed by the value, a root-relative value is
\* resolved against the base URL of its source, and an absolute URL is returned
\* unchanged.
C17_UrlsMadeAbsolute ==
  /\ nfn \in {"booking.url", "agoda.booking_url", "agoda.image_url"}
  /\ ~nin.none
  /\ UrlShape(nin.s) # "other"
  => /\ ~nout.raised
     /\ nout.value =
          CASE UrlShape(nin.s) = "scheme_relative" -> Str(<<"h","t","t","p","s",":">> \o nin.s)
            [] UrlShape(nin.s) = "root_relative" -> Str(BaseOf(nfn) \o nin.s)
            [] OTHER -> nin

\* C18: for every search request, review pages are fetched for a record only if
\* the request's include_reviews is true, and the number of reviews attached to
\* a record never exceeds the request's review_limit.
C18_ReviewsOnlyAsRequested ==
  \A i \in DOMAIN tenv :
    /\ tenv[i].reviews # "none" => request.include_reviews
    /\ Len(tres[i].reviews) <= request.review_limit

\* some candidate of the field last extracted has content that is non-empty after trimming
SomeNonBlank ==
  \E i \in DOMAIN xcands :
    xcands[i].found /\ Truthy(xcands[i].val) /\ Strip(xcands[i].val.s) # <<>>

\* C19: when no candidate selector of the hotel name yields content that is
\* non-empty after trimming, the name is absent and the item is skipped; no
\* record is ever returned whose hotel name is empty or whitespace-only.
C19_BlankNameIsAbsent ==
  /\ xpc = "name_gate" /\ ~SomeNonBlank => NameMissing(xvals.hotel_name)
  /\ xpc = "done" /\ xresult.ok => Strip(xresult.data.hotel_name) # <<>>

\* C20: an item with a name and a parseable price whose link elements have no
\* href, or whose image elements have no src, is still returned as a record,
\* with that field absent; a miss on an optional field never removes the record.
C20_OptionalMissKeepsRecord ==
  /\ xpc = "done"
  /\ xvals.field = "image"
  /\ xvals.booking_url.none \/ xvals.main_image_url.none
  => /\ xresult.ok
     /\ xvals.booking_url.none => xresult.data.booking_url.none
     /\ xvals.main_image_url.none => xresult.data.image_url.none

\* what one poll does to window.retries, given the height it measures
CounterStep ==
  LET Step(h, last, before) ==
        /\ h > last => window'.retries = StableTicks
        /\ h <= last => window'.retries = before - 1
  IN Step(heights'[Len(heights')],
          IF window.defined THEN window.lastHeight ELSE 0,
          IF window.defined THEN window.retries ELSE StableTicks)

\* C21: on every poll tick the stability counter is reset to its maximum only
\* when the measured height is greater than the last recorded height; when the
\* height is equal to or smaller than the last recorded height it is decremented.
C21_ResetOnlyWhenHigher == [][CounterStep]_vars
\* C22: for every sequence of measured heights, also one that grows on every
\* measurement, each load-waiting loop ends after a bounded number of ticks:
\* a loop that has used its MaxLoopTicks iterations is no longer running.
C22_LoopsEndWithinBudget == lticks = MaxLoopTicks => lpc # "loop"
\* how often the navigator has performed a page action, and where first
StepCount(step) == Len(SelectSeq(nsteps, LAMBDA e : e = step))

Did(step) == \E i \in DOMAIN nsteps : nsteps[i] = step

FirstAt(step) == CHOOSE i \in DOMAIN nsteps : nsteps[i] = step /\ \A j \in 1..(i - 1) : nsteps[j] # step

\* the branches taken so far are consistent with the fixed order
RecoveryInOrder ==
  /\ StepCount("deep_link") <= 1
  /\ StepCount("tab_lookup") <= 1
  /\ StepCount("hotels_tab") <= 1
  /\ StepCount("goto_home") <= 1
  /\ Did("tab_lookup") => ~Did("deep_link")
  /\ Did("hotels_tab") => Did("tab_lookup") /\ FirstAt("tab_lookup") < FirstAt("hotels_tab")
  /\ (npc = "restart" \/ Did("goto_home")) => Did("tab_lookup") /\ ~Did("hotels_tab")
  /\ Did("goto_home") => FirstAt("tab_lookup") < FirstAt("goto_home")

\* the step that leaves the address the search led to
RecoveryDecision ==
  npc = "redirect" /\ npc' # "redirect" =>
    /\ (\E i \in DOMAIN nsteps' : nsteps'[i] = "deep_link")
         <=> (IsActivities(current_url) /\ ~city_id_match(current_url).none)
    /\ (\E i \in DOMAIN nsteps' : nsteps'[i] = "tab_lookup")
         => (IsActivities(current_url) /\ city_id_match(current_url).none)

\* C23: on an activities page the recovery branches are tried in a fixed order,
\* each at most once per query: the deep link exactly when a city identifier can
\* be parsed from the current address, the tab switch only when none can, and the
\* restart with the 'Hotels in' prefix only when the tab switch found no tab
\* (no tab was switched to).
C23_RecoveryInFixedOrder == []RecoveryInOrder /\ [][RecoveryDecision]_vars

C23_Witness == npc = "extracted" /\ StepCount("goto_home") = 1 /\ StepCount("search") = 2

\* the page actions of the restart, from the return to the homepage on
AfterHome == SubSeq(nsteps, FirstAt("goto_home"), Len(nsteps))

\* C24: when the search is restarted with the 'Hotels in' prefix, the whole step
\* sequence is performed again before the search is triggered: location entry,
\* overlay dismissal, check-in and check-out selection, and the adjustment of the
\* party size to the requested value.
C24_RestartRepeatsEveryStep ==
  (Did("goto_home") /\ \E i \in DOMAIN AfterHome : AfterHome[i] = "search") =>
    /\ \E i \in DOMAIN AfterHome : AfterHome[i] = "type_hotels_in"
    /\ \E i \in DOMAIN AfterHome : AfterHome[i] = "dismiss"
    /\ \E i \in DOMAIN AfterHome : AfterHome[i] = "check_in_date"
    /\ \E i \in DOMAIN AfterHome : AfterHome[i] = "check_out_date"
    /\ nargs.adults # 2 => \E i \in DOMAIN AfterHome : AfterHome[i] = "occupancy_box"

\* the last page action timed out and it belonged to a recovery branch
RecoveryActionFailed ==
  /\ Len(nsteps) >= 2
  /\ nsteps[Len(nsteps)] = "timeout"
  /\ \/ nsteps[Len(nsteps) - 1] \in {"deep_link", "goto_home"}
     \/ nsteps[Len(nsteps) - 1] = "search" /\ Did("goto_home")

\* C25: when an action inside a recovery branch fails (the deep-link navigation
\* or a click of the restarted search times out), the navigator still finishes
\* and extraction is run on the current page: the query never skips extraction.
C25_FailedRecoveryStillExtracts == RecoveryActionFailed => npc \notin {"raised", "skipped"}

\* the last results-page address the navigator asked for
LastResultsAddress ==
  IF Did("reload_accom") \/ Did("reload_star") THEN nrequested[Len(nrequested)] ELSE current_url

Carries(url, name, value) ==
  \E i \in DOMAIN url.params : url.params[i].name = name /\ url.params[i].value = value

\* C26: whenever the navigator finishes without error, the last results-page
\* address it requested carries hotelAccom=34 and, when a star rating s was
\* requested, hotelStarRating=s, whatever parameters the address had before;
\* each parameter is appended at most once and causes at most one reload.
C26_AddressCarriesFilters ==
  npc \in {"returned", "extracted"} =>
    /\ Carries(LastResultsAddress, "hotelAccom", "34")
    /\ nargs.star_rating # 0 =>
         Carries(LastResultsAddress, "hotelStarRating", DigitChars[nargs.star_rating + 1])
    /\ StepCount("reload_accom") <= 1
    /\ StepCount("reload_star") <= 1

\* C27: for every party size n, starting from the default of 2, the adjustment
\* leaves the control at exactly n with at most n clicks on the buttons and none
\* when n is 2, whether or not each button is visible when it is checked (the
\* block has run to its last click, the one that closes the dropdown).
C27_ControlReachesPartySize ==
  (npc = "search" /\ nsteps[Len(nsteps)] = "dismiss") =>
    /\ ncontrol = nargs.adults
    /\ nclicks <= nargs.adults
    /\ nargs.adults = 2 => nclicks = 0
\* C28: the merge step starts only after every per-record task of the batch has
\* finished, by success or by failure.
C28_MergeAfterEveryTask ==
  [][(bpc = "enrich" /\ bpc' = "done") => \A i \in DOMAIN tpc : tpc[i] \in {"done", "raised"}]_vars

C28_Witness ==
  /\ bpc = "done"
  /\ \E i, j \in DOMAIN tpc : tpc[i] = "done" /\ tpc[j] = "raised"
  /\ bookingResult # <<>>

\* C29: at most one browser or page session is open per query at every moment:
\* the Booking availability-check crawler, the Booking extraction crawler and
\* the Agoda browser are never open at the same time.
C29_OneBrowserAtATime == Cardinality(browsers) <= 1

\* a coordinate or review fetch of task i is under way or has ended
Fetched(i) == tenv[i].coords # "none" \/ tenv[i].reviews # "none" \/ tpc[i] \in {"coords", "reviews"}

\* C30: under every interleaving of the concurrent coordinate and review fetches
\* of one search_hotels call on a scraper that starts with no session, at most
\* one HTTP client session is created and every fetch uses that same session.
C30_OneClientSession ==
  /\ [](sessionsCreated <= 1)
  /\ []((\E i \in DOMAIN tpc : Fetched(i)) => session = 1)
  /\ [][session # 0 => session' = session]_vars

C30_Witness ==
  /\ sessionsCreated = 1
  /\ \E i, j \in DOMAIN tpc : i # j /\ tpc[i] = "coords" /\ tpc[j] = "reviews"

=============================================================================
